---- MODULE Spec2Model ----
(***************************************************************************)
(* A model of quintans/eventstore: the worker balancer, the PostgreSQL     *)
(* event repository with the EventStore.Save front end, the MongoDB        *)
(* change-stream feeder and the projection boot protocol.                  *)
(*                                                                         *)
(* Every subsystem has its own specification (SpecBalance, SpecStore,      *)
(* SpecFeed, SpecBoot).  All of them share one list of variables; the      *)
(* actions of one subsystem leave the variables of the others unchanged.   *)
(***************************************************************************)
EXTENDS Integers, Sequences, FiniteSets, TLC

(***************************************************************************)
(* Bounds of the model.                                                    *)
(***************************************************************************)
\* the fleet of SpecBalance: whole iterations of run, one member at a time
NumMembers == 3
NumWorkers == 4
\* the fleet of SpecBalanceSteps: iterations of run that overlap
NumRacers == 2
NumRaceWorkers == 3

\* the store of SpecStore
NumWriters == 2
NumPollWriters == 1
NumAggregates == 2
NumTypes == 1
NumKeys == 1
MaxDetails == 2
MaxVersion == 2
MaxEvents == 2
MaxTime == 2
TrailingLag == 1
MaxBatch == 1
\* the push feeder of SpecFeed
MaxDocs == 3
FeedPartitions == 2
FeedPartitionsLow == 1
FeedPartitionsHi == 1
\* the feeder of SpecResume and the partitions it owns
ResumePartitions == 2
ResumeLow == 1
ResumeHi == 2
MaxSink == 5
\* the EventStore of SpecSnapshots: the threshold of its snapshots, the events
\* of one aggregate, the rows of the table events, the clock of the client, the
\* pending events of an instance, the owners of an account
snapshotThreshold == 2
MaxAggVersion == 3
MaxRows == 3
MaxNow == 1
MaxPending == 2
NumOwners == 1
\* the rebalance scenario of SpecRebalance
SceneWorkers == 12
MaxBeats == 3
\* the partition filter of SpecPartition
MaxAggregateID == 7
MaxPartitions == 3
\* the BootableManager: its partitions lo..hi of the topic, the OnBoot calls,
\* the threads that call Wait, Freeze, Unfreeze and Cancel, and the channels
\* made for m.wait
partitionLo == 1
partitionHi == 2
TopicPartitions == 2
MaxBoots == 2
NumThreads == 2
MaxChannels == 3
\* the thread of SpecFreeze that calls Freeze
FreezeThread == 1

Members == 1..NumMembers

VARIABLES
    \* ---- balancer (src/worker/balance_workers.go) ----
    workers,     \* the configured workers, 1..n: the configured order is the numeric order
    joined,      \* members whose BalanceWorkers loop is alive
    registered,  \* members that have an entry in the member list
    claims,      \* claims[m]: the worker names member m registered
    isRunning,   \* isRunning[m]: the workers running at member m (Worker.IsRunning)
    lockHolder,  \* lockHolder[w]: the member holding worker w's distributed lock, 0 if free
    bal,         \* bal[m]: the position and the locals of member m's iteration
    \* ---- event store (src/eventstore.go, src/unnamed/part_000) ----
    idempotencyUnique, \* the schema in use: is the index on (aggregate_type, idempotency_key) unique
    clock,       \* the wall clock of the reader, in milliseconds
    events,      \* the committed rows of the table events
    wr,          \* wr[w]: writer w's aggregate instance, its Save in progress and its result
    batch,       \* the last GetEvents call: its arguments, its time and its result
    \* ---- push feeder (src/store/mongodb/listener.go) ----
    docs,        \* the documents of the collection events, in the order of the change stream
    sink,        \* the messages the sinker has published, in their order
    feed,        \* the feeder: stopped or running, and its place in the change stream
    \* ---- projection boot (src/unnamed/part_001) ----
    pending,     \* committed events the forwarder has yet to publish, in the order of their commits
    bus,         \* the messages of the topic, in their order
    boot,        \* the BootableManager: its step and the locals of boot
    handled,     \* the IDs of the events the projection's Handler was called with
    insertedOnBoot,  \* the IDs of the events inserted while OnBoot was running
    \* ---- polling feeder (spec 4.5 over EsRepository.GetEvents) ----
    poll,        \* the poller: its lastID and the IDs it has passed to the sink, in their order
    \* ---- partition filter of the push feeder (src/store/mongodb/listener.go) ----
    part,        \* one inserted event and one configuration, with the verdicts of the two checks
    \* ---- rebalance scenario (src/worker/balance_workers.go) ----
    scene,       \* the stage of the scenario and the heartbeats each member had in it
    \* ---- BootableManager (src/unnamed/part_001) ----
    mgr,         \* the fields of the BootableManager and the locals of the OnBoot in progress
    wch,         \* wch[c]: is the c-th channel made for m.wait open or closed
    cons,        \* the consumers StartConsumer has started, each with its context and its state
    calls,       \* calls[t]: the call of Wait, Freeze, Unfreeze or Cancel thread t is in, or was in last
    steps,       \* the calls the OnBoot in progress, or the last one, has made, in their order
    hist,        \* what the calls so far say of the freeze and of the lock
    \* ---- the return of Feed (src/store/mongodb/listener.go) ----
    feedEnd,     \* why the last call of Feed ended, and the error it returned
    \* ---- the EventStore with snapshots (src/eventstore.go, src/unnamed/part_000) ----
    table,       \* the rows of the table events
    snapshots,   \* the rows of the table snapshots
    inst,        \* the aggregate instance the client holds
    outcome,     \* the last call of the client and what it returned
    fg,          \* the call of Forget: its position, its selection, the tables it found
    \* ---- the second part of boot, event by event (src/unnamed/part_001) ----
    fetched,     \* the events GetEvents returned to boot that are not handled yet
    \* ---- the failures of Sink (src/store/mongodb/listener.go) ----
    failedAt,    \* the events for which Sink has failed: document and detail
    \* ---- the channels m.release (src/unnamed/part_001) ----
    rel,         \* the release channels made so far, the one in m.release, the ones returned
    \* ---- GetEvents with a filter (src/unnamed/part_000) ----
    flt          \* the rows with their labels, the last filter asked and what GetEvents returned

balVars == <<workers, joined, registered, claims, isRunning, lockHolder, bal>>
storeVars == <<idempotencyUnique, clock, events, wr, batch>>
feedVars == <<docs, sink, feed>>
bootVars == <<pending, bus, boot, handled, insertedOnBoot>>
pollVars == <<poll>>
partVars == <<part>>
sceneVars == <<scene>>
mgrVars == <<mgr, wch, cons, calls, steps, hist>>
esVars == <<table, snapshots, inst, outcome, fg>>
moreVars == <<feedEnd, esVars, fetched, failedAt, rel, flt>>

vars == <<balVars, storeVars, feedVars, bootVars, pollVars, partVars, sceneVars, mgrVars,
          moreVars>>

\* what the actions of one subsystem leave alone
notBal == <<storeVars, feedVars, bootVars, pollVars, partVars, sceneVars, mgrVars, moreVars>>
notStore == <<balVars, feedVars, bootVars, pollVars, partVars, sceneVars, mgrVars, moreVars>>
notFeed == <<balVars, storeVars, bootVars, pollVars, partVars, sceneVars, mgrVars, moreVars>>
\* the boot works on the table events of the store
notBoot == <<balVars, idempotencyUnique, clock, wr, batch, feedVars,
             pollVars, partVars, sceneVars, mgrVars, moreVars>>

(***************************************************************************)
(* The states in which a subsystem has not begun                           *)
(***************************************************************************)
\* EventID of the zero value: lower than the ID of every event
ZeroID == <<0, 0, 0>>

\* a writer without an aggregate instance and without a Save
IdleWriter ==
    [pc |-> "idle", aggregateID |-> 0, version |-> 0, updatedAt |-> 0,
     rec |-> [aggregateID |-> 0, version |-> 0, createdAt |-> 0,
              idempotencyKey |-> 0, n |-> 0],
     k |-> 0, id |-> ZeroID, err |-> "none", ret |-> <<ZeroID, 0>>]

NoBatch == [now |-> 0, trailingLag |-> 0, afterEventID |-> ZeroID, batchSize |-> 0,
            events |-> <<>>]

StoreIdle ==
    /\ idempotencyUnique = FALSE
    /\ clock = 0
    /\ events = {}
    /\ wr = [w \in 1..NumWriters |-> IdleWriter]
    /\ batch = NoBatch

\* a feeder that does not run
StoppedFeed == [pc |-> "stopped", pos |-> 0, inDoc |-> FALSE, k |-> 0]

FeedIdle ==
    /\ docs = <<>>
    /\ sink = <<>>
    /\ feed = StoppedFeed

\* a BootableManager before OnBoot
BootOff == [pc |-> "off", afterEventID |-> ZeroID, lastEventID |-> ZeroID,
            token |-> 0, consumer |-> 0]

BootIdle ==
    /\ pending = <<>>
    /\ bus = <<>>
    /\ boot = BootOff
    /\ handled = {}
    /\ insertedOnBoot = {}

\* a poller that has not polled
NoPoll == [lastID |-> ZeroID, seen |-> <<>>, raced |-> {}]

PollIdle == poll = NoPoll

\* no event at the partition filter
NoPart == [pc |-> "none", aggregateID |-> 0, partitions |-> 0,
           partitionsLow |-> 0, partitionsHi |-> 0]

PartIdle == part = NoPart

\* no scenario
NoScene == [stage |-> 0, beats |-> <<>>]

SceneIdle == scene = NoScene

\* no BootableManager
NoMgr == [pc |-> "none"]

NoHist == [frozen |-> FALSE, lock |-> {FALSE}, inside |-> 0, panicked |-> FALSE]

MgrIdle ==
    /\ mgr = NoMgr
    /\ wch = <<>>
    /\ cons = <<>>
    /\ calls = <<>>
    /\ steps = <<>>
    /\ hist = NoHist

\* the subsystems that came to the model after the first four, not begun
\* no call of Feed has returned
NoEnd == [cause |-> "none", err |-> "none"]

\* no call of the client of the EventStore, and no Forget
NoOutcome ==
    [op |-> "none", aggregateID |-> 0, err |-> "nil", called |-> FALSE, appended |-> FALSE]

NoForget ==
    [pc |-> "idle", aggregateID |-> 0, kind |-> "", todo |-> {}, err |-> "nil",
     events |-> {}, snapshots |-> {}]

EsIdle ==
    /\ table = {}
    /\ snapshots = {}
    /\ inst = [aggregateID |-> 0, version |-> 0, updatedAt |-> 0,
               state |-> [owner |-> 0, balance |-> 0], events |-> <<>>]
    /\ outcome = NoOutcome
    /\ fg = NoForget

\* store.Filter without a component: every event passes
AnyFilter ==
    [aggregateTypes |-> <<>>, partitions |-> 0, partitionsLow |-> 0, partitionsHi |-> 0,
     labels |-> <<>>]

\* no row with labels, and no query with a filter
NoQuery == [rows |-> <<>>, asked |-> FALSE, filter |-> AnyFilter, err |-> FALSE, out |-> <<>>]

\* no release channel but the one of NewBootableManager, lines 75-84
NoRelease == [chans |-> <<"open">>, cur |-> 1, got |-> {}, frozen |-> FALSE]

MoreIdle ==
    /\ feedEnd = NoEnd
    /\ EsIdle
    /\ fetched = <<>>
    /\ failedAt = {}
    /\ rel = NoRelease
    /\ flt = NoQuery

LaterIdle == PollIdle /\ PartIdle /\ SceneIdle /\ MgrIdle /\ MoreIdle

(***************************************************************************)
(* Balancer                                                                *)
(***************************************************************************)
\* the locals of an iteration that is not in progress
IdleBal ==
    [pc |-> "idle", workersToAcquire |-> 0, workersInUse |-> {}, myRunningWorkers |-> {}]

\* run, lines 50-61: the listed members, counting this process once
membersCount(m) ==
    Cardinality(registered) + (IF m \in registered THEN 0 ELSE 1)

\* run, line 63
monitorsNo == Cardinality(workers)

\* the remainder is taken at once, whether or not every member has its share
allHaveMinWorkersEager(m, min) == TRUE

\* the entry of this member in the list is passed over
allHaveMinWorkersOthers(m, min) ==
    /\ \A p \in registered \ {m} : Cardinality(claims[p]) >= min
    /\ Cardinality(isRunning[m]) >= min

\* run, lines 67-93: every listed member claims min workers and this member runs min
allHaveMinWorkers(m, min) ==
    /\ \A p \in registered : Cardinality(claims[p]) >= min
    /\ Cardinality(isRunning[m]) >= min

\* the own running workers are left out of the names in use
workersInUseOthers(m) ==
    UNION {claims[p] : p \in registered \ {m}}

\* run, lines 68-89: the names claimed by the other members plus the own running workers
workersInUse(m) ==
    UNION {claims[p] : p \in registered \ {m}} \cup isRunning[m]

\* run, lines 64 and 95-97: the number of workers this member is to run
workersToAcquire(m) ==
    LET min == monitorsNo \div membersCount(m)
    IN  IF allHaveMinWorkers(m, min) /\ monitorsNo % membersCount(m) # 0
        THEN min + 1
        ELSE min

\* a Start that does not look at the lock
StartOkNoLock(m, w, locks) == TRUE

\* Worker.Start returns true only when it got the worker's distributed lock
\* (locks[w] is the holder of w's lock, 0 when it is free); Start is idempotent
StartOk(m, w, locks) == locks[w] = 0 \/ locks[w] = m

\* balance, lines 111-133: the loop from the worker v on.  st holds the map
\* myRunningWorkers (my), the counter running, the workers running at this
\* member (up), the locks, and the calls of Stop and Start made so far (log).
RECURSIVE balanceLoop(_, _, _, _, _)
balanceLoop(m, v, target, inUse, st) ==
    IF v \notin workers THEN st
    ELSE IF st.running > target
    THEN IF v \notin st.up
         THEN balanceLoop(m, v + 1, target, inUse, st)
         ELSE LET s2 == [my |-> st.my \ {v},
                         running |-> st.running - 1,
                         up |-> st.up \ {v},
                         locks |-> [st.locks EXCEPT ![v] = IF @ = m THEN 0 ELSE @],
                         log |-> Append(st.log, [op |-> "Stop", worker |-> v,
                                                 ok |-> TRUE])]
              IN  IF s2.running = target THEN s2
                  ELSE balanceLoop(m, v + 1, target, inUse, s2)
    ELSE IF v \in inUse
         THEN balanceLoop(m, v + 1, target, inUse, st)
         ELSE LET s2 == IF StartOk(m, v, st.locks)
                        THEN [my |-> st.my \cup {v},
                              running |-> st.running + 1,
                              up |-> st.up \cup {v},
                              locks |-> [st.locks EXCEPT ![v] = m],
                              log |-> Append(st.log, [op |-> "Start", worker |-> v,
                                                      ok |-> TRUE])]
                        ELSE [st EXCEPT !.log = Append(@, [op |-> "Start", worker |-> v,
                                                           ok |-> FALSE])]
              IN  IF s2.running = target THEN s2
                  ELSE balanceLoop(m, v + 1, target, inUse, s2)

\* a balance that acquires workers and never releases one
balanceNoRelease(m, target, inUse, my, up, locks) ==
    LET st == [my |-> my, running |-> Cardinality(my), up |-> up, locks |-> locks,
               log |-> <<>>]
    IN  IF st.running >= target THEN st
        ELSE balanceLoop(m, 1, target, inUse, st)

\* balance, lines 105-135
balance(m, target, inUse, my, up, locks) ==
    LET st == [my |-> my, running |-> Cardinality(my), up |-> up, locks |-> locks,
               log |-> <<>>]
    IN  IF st.running = target THEN st
        ELSE balanceLoop(m, 1, target, inUse, st)

\* the state of the balancer with the workers 1..n configured
BalStart(n) ==
    /\ workers = 1..n
    /\ joined = {}
    /\ registered = {}
    /\ claims = [m \in Members |-> {}]
    /\ isRunning = [m \in Members |-> {}]
    /\ lockHolder = [w \in 1..n |-> 0]
    /\ bal = [m \in Members |-> IdleBal]

BalInit == BalStart(NumWorkers) /\ StoreIdle /\ FeedIdle /\ BootIdle /\ LaterIdle

\* a process starts its BalanceWorkers loop
Join(m) ==
    /\ m \notin joined
    /\ bal[m].pc = "idle"
    /\ joined' = joined \cup {m}
    /\ UNCHANGED <<workers, registered, claims, isRunning, lockHolder, bal, notBal>>

\* a process ends between two iterations: its workers stop and their locks
\* are released; its entry stays in the member list until it expires
Leave(m) ==
    /\ m \in joined
    /\ bal[m].pc = "idle"
    /\ joined' = joined \ {m}
    /\ isRunning' = [isRunning EXCEPT ![m] = {}]
    /\ lockHolder' = [w \in workers |-> IF lockHolder[w] = m THEN 0 ELSE lockHolder[w]]
    /\ UNCHANGED <<workers, registered, claims, bal, notBal>>

\* the member list drops the entry of a process that is gone
Expire(m) ==
    /\ m \notin joined
    /\ m \in registered
    /\ registered' = registered \ {m}
    /\ claims' = [claims EXCEPT ![m] = {}]
    /\ UNCHANGED <<workers, joined, isRunning, lockHolder, bal, notBal>>

\* run, lines 44-103: one whole iteration of member m
run(m) ==
    /\ m \in joined
    /\ bal[m].pc = "idle"
    /\ LET st == balance(m, workersToAcquire(m), workersInUse(m),
                         isRunning[m], isRunning[m], lockHolder)
       IN  /\ isRunning' = [isRunning EXCEPT ![m] = st.up]
           /\ lockHolder' = st.locks
           /\ registered' = registered \cup {m}
           /\ claims' = [claims EXCEPT ![m] = st.my]
    /\ UNCHANGED <<workers, joined, bal, notBal>>

BalNext ==
    \E m \in Members :
        \/ Join(m)
        \/ Leave(m)
        \/ Expire(m)
        \/ run(m)

SpecBalance == BalInit /\ [][BalNext]_vars

(***************************************************************************)
(* Balancer, iterations that overlap: run in its three calls               *)
(***************************************************************************)
Racers == 1..NumRacers

StepsInit == BalStart(NumRaceWorkers) /\ StoreIdle /\ FeedIdle /\ BootIdle /\ LaterIdle

\* run, lines 44-97: member.List and the plan of the iteration
RunList(m) ==
    /\ m \in joined
    /\ bal[m].pc = "idle"
    /\ bal' = [bal EXCEPT ![m] =
                [pc |-> "balance",
                 workersToAcquire |-> workersToAcquire(m),
                 workersInUse |-> workersInUse(m),
                 myRunningWorkers |-> isRunning[m]]]
    /\ UNCHANGED <<workers, joined, registered, claims, isRunning, lockHolder, notBal>>

\* run, line 99: the call of balance, which starts and stops workers
Balance(m) ==
    /\ m \in joined
    /\ bal[m].pc = "balance"
    /\ LET b == bal[m]
           st == balance(m, b.workersToAcquire, b.workersInUse,
                         b.myRunningWorkers, isRunning[m], lockHolder)
       IN  /\ isRunning' = [isRunning EXCEPT ![m] = st.up]
           /\ lockHolder' = st.locks
           /\ bal' = [bal EXCEPT ![m] = [b EXCEPT !.pc = "register",
                                                  !.myRunningWorkers = st.my]]
    /\ UNCHANGED <<workers, joined, registered, claims, notBal>>

\* a Register whose argument is the set of the names in use
RegisterInUse(m) ==
    /\ m \in joined
    /\ bal[m].pc = "register"
    /\ registered' = registered \cup {m}
    /\ claims' = [claims EXCEPT ![m] = bal[m].workersInUse]
    /\ bal' = [bal EXCEPT ![m] = IdleBal]
    /\ UNCHANGED <<workers, joined, isRunning, lockHolder, notBal>>

\* run, line 100: member.Register(ctx, locks)
Register(m) ==
    /\ m \in joined
    /\ bal[m].pc = "register"
    /\ registered' = registered \cup {m}
    /\ claims' = [claims EXCEPT ![m] = bal[m].myRunningWorkers]
    /\ bal' = [bal EXCEPT ![m] = IdleBal]
    /\ UNCHANGED <<workers, joined, isRunning, lockHolder, notBal>>

StepsNext ==
    \E m \in Racers :
        \/ Join(m)
        \/ RunList(m)
        \/ Balance(m)
        \/ Register(m)

SpecBalanceSteps == StepsInit /\ [][StepsNext]_vars

(***************************************************************************)
(* Balancer, iterations that overlap and whose Register may fail           *)
(***************************************************************************)
\* run, line 100: member.Register returns an error, which run drops; the entry
\* of the member in the list stays as it was
RegisterFails(m) ==
    /\ m \in joined
    /\ bal[m].pc = "register"
    /\ bal' = [bal EXCEPT ![m] = IdleBal]
    /\ UNCHANGED <<workers, joined, registered, claims, isRunning, lockHolder, notBal>>

StaleNext ==
    \E m \in Racers :
        \/ Join(m)
        \/ RunList(m)
        \/ Balance(m)
        \/ Register(m)
        \/ RegisterFails(m)

SpecBalanceStale == StepsInit /\ [][StaleNext]_vars

(***************************************************************************)
(* Balancer, iterations whose List may fail                                *)
(***************************************************************************)
\* a failing List after which the member stops what it runs
ListFailsStops(m) ==
    /\ m \in joined
    /\ bal[m].pc = "idle"
    /\ bal' = [bal EXCEPT ![m].pc = "failed"]
    /\ isRunning' = [isRunning EXCEPT ![m] = {}]
    /\ lockHolder' = [w \in workers |-> IF lockHolder[w] = m THEN 0 ELSE lockHolder[w]]
    /\ UNCHANGED <<workers, joined, registered, claims, notBal>>

\* run, lines 45-48: member.List returns an error, and run returns it
ListFails(m) ==
    /\ m \in joined
    /\ bal[m].pc = "idle"
    /\ bal' = [bal EXCEPT ![m].pc = "failed"]
    /\ UNCHANGED <<workers, joined, registered, claims, isRunning, lockHolder, notBal>>

\* BalanceWorkers, lines 32-40: the error is logged, and the loop waits for
\* the next heartbeat or for the end of the context
Warnf(m) ==
    /\ m \in joined
    /\ bal[m].pc = "failed"
    /\ bal' = [bal EXCEPT ![m].pc = "idle"]
    /\ UNCHANGED <<workers, joined, registered, claims, isRunning, lockHolder, notBal>>

ListNext ==
    \E m \in Racers :
        \/ Join(m)
        \/ Leave(m)
        \/ RunList(m)
        \/ ListFails(m)
        \/ Warnf(m)
        \/ Balance(m)
        \/ Register(m)

SpecBalanceList == StepsInit /\ [][ListNext]_vars

(***************************************************************************)
(* Event store: EventStore.Save over the PostgreSQL repository             *)
(***************************************************************************)
Writers == 1..NumWriters
Aggregates == 1..NumAggregates
\* idempotency keys: 0 is the empty key
Keys == 0..NumKeys

\* the aggregate type of an aggregate
TypeOf(a) == a % NumTypes

\* common.NewEventID: the time, the aggregate (its hash) and the version, in
\* this order of significance
NewEventID(createdAt, aggregateID, version) == <<createdAt, aggregateID, version>>

\* the order of event IDs: the order of their encoded strings
IDLess(a, b) ==
    \/ a[1] < b[1]
    \/ a[1] = b[1] /\ a[2] < b[2]
    \/ a[1] = b[1] /\ a[2] = b[2] /\ a[3] < b[3]

\* SaveEvent, lines 98-105: the row inserted for the detail k of the record
\* rec of writer w; the body tells the Save and the detail it was written for
Row(w, rec, k) ==
    [id |-> NewEventID(rec.createdAt, rec.aggregateID, rec.version + k),
     aggregateID |-> rec.aggregateID,
     aggregateVersion |-> rec.version + k,
     aggregateType |-> TypeOf(rec.aggregateID),
     idempotencyKey |-> rec.idempotencyKey,
     createdAt |-> rec.createdAt,
     body |-> [by |-> w, k |-> k, n |-> rec.n]]

\* the rows of a whole record
RecordRows(w, rec) == {Row(w, rec, k) : k \in 1..rec.n}

\* the rows writer w has inserted in its open transaction
Uncommitted(w) ==
    IF wr[w].pc = "tx" THEN {Row(w, wr[w].rec, k) : k \in 1..wr[w].k} ELSE {}

\* a schema without the unique index on (aggregate_id, aggregate_version)
ConflictKeyOnly(r1, r2) ==
    /\ idempotencyUnique
    /\ r1.aggregateType = r2.aggregateType
    /\ r1.idempotencyKey = r2.idempotencyKey

\* dbSchema: two rows that one of the unique indexes does not allow together.
\* The key is inserted as the string it is, the empty one included (SaveEvent,
\* line 105), so the index on the key, where it is unique, holds for all rows.
Conflict(r1, r2) ==
    \/ r1.aggregateID = r2.aggregateID /\ r1.aggregateVersion = r2.aggregateVersion
    \/ /\ idempotencyUnique
       /\ r1.aggregateType = r2.aggregateType
       /\ r1.idempotencyKey = r2.idempotencyKey

\* a rollback that leaves the inserted rows in the table
RollbackKeeps(rows) == rows

\* withTx, lines 208-215: what tx.Rollback leaves of the rows of the transaction
afterRollback(rows) == {}

\* SpecStore starts with an empty table, under either schema found in the sources
StoreInit ==
    /\ idempotencyUnique \in BOOLEAN
    /\ clock = 0
    /\ events = {}
    /\ wr = [w \in Writers |-> IdleWriter]
    /\ batch = NoBatch
    /\ BalStart(0)
    /\ FeedIdle
    /\ BootIdle
    /\ LaterIdle

\* time passes
Tick ==
    /\ clock < MaxTime
    /\ clock' = clock + 1
    /\ UNCHANGED <<idempotencyUnique, events, wr, batch, notStore>>

\* a new aggregate made by its factory: no version, the zero time
NewAggregate(w, a) ==
    /\ wr[w].pc = "idle"
    /\ wr' = [wr EXCEPT ![w] = [IdleWriter EXCEPT !.aggregateID = a]]
    /\ UNCHANGED <<idempotencyUnique, clock, events, batch, notStore>>

\* the stored event of aggregate a with the highest version
LastEventOf(a) ==
    CHOOSE e \in events :
        /\ e.aggregateID = a
        /\ \A f \in events : f.aggregateID = a => f.aggregateVersion <= e.aggregateVersion

\* GetByID, lines 206-246, with ApplyChangeFromHistory, lines 248-258: the
\* events are applied in the order of their versions, each setting the version
\* and the time of the instance
GetByID(w, a) ==
    /\ wr[w].pc = "idle"
    /\ \E e \in events : e.aggregateID = a
    /\ wr' = [wr EXCEPT ![w] = [IdleWriter EXCEPT
                !.aggregateID = a,
                !.version = LastEventOf(a).aggregateVersion,
                !.updatedAt = LastEventOf(a).createdAt]]
    /\ UNCHANGED <<idempotencyUnique, clock, events, batch, notStore>>

\* the rows in the table or in an open transaction, by any writer
InFlight == Cardinality(events) + Cardinality(UNION {Uncommitted(w) : w \in Writers})

\* Save, lines 269-316: the record of the n pending events of the instance,
\* stamped with the writer's time now, and the start of SaveEvent's transaction
Save(w, n, key, now) ==
    LET i == wr[w]
        createdAt == IF now <= i.updatedAt THEN i.updatedAt + 1 ELSE now
    IN  /\ i.pc = "idle"
        /\ i.aggregateID # 0
        /\ createdAt <= MaxTime
        /\ i.version + n <= MaxVersion
        /\ InFlight + n <= MaxEvents
        /\ wr' = [wr EXCEPT ![w] = [i EXCEPT
                    !.pc = "tx",
                    !.rec = [aggregateID |-> i.aggregateID, version |-> i.version,
                             createdAt |-> createdAt, idempotencyKey |-> key, n |-> n],
                    !.k = 0, !.id = ZeroID, !.err = "none", !.ret = <<ZeroID, 0>>]]
        /\ UNCHANGED <<idempotencyUnique, clock, events, batch, notStore>>

\* the row SaveEvent inserts next
NextRow(w) == Row(w, wr[w].rec, wr[w].k + 1)

\* isPgDup, lines 138-145: the insert meets a unique violation, by a committed
\* row or by a row of its own transaction
isPgDup(w) ==
    \E r \in events \cup Uncommitted(w) : Conflict(NextRow(w), r)

\* the insert waits for the transaction of another writer that holds a row
\* the new row is in conflict with
Blocked(w) ==
    \E w2 \in Writers \ {w} : \E r \in Uncommitted(w2) : Conflict(NextRow(w), r)

\* SaveEvent, lines 98-106: one INSERT that succeeds
Insert(w) ==
    /\ wr[w].pc = "tx"
    /\ wr[w].k < wr[w].rec.n
    /\ ~isPgDup(w)
    /\ ~Blocked(w)
    /\ wr' = [wr EXCEPT ![w].k = @ + 1, ![w].id = NextRow(w).id]
    /\ UNCHANGED <<idempotencyUnique, clock, events, batch, notStore>>

\* the end of a Save whose transaction was rolled back: eventstore.go lines
\* 317-320, the instance is as it was
Failed(w, err) ==
    /\ events' = events \cup afterRollback(Uncommitted(w))
    /\ wr' = [wr EXCEPT ![w].pc = "idle", ![w].k = 0, ![w].id = ZeroID,
                        ![w].err = err, ![w].ret = <<ZeroID, 0>>]
    /\ UNCHANGED <<idempotencyUnique, clock, batch, notStore>>

\* SaveEvent, lines 107-110: a unique violation ends the Save with
\* ErrConcurrentModification
InsertDup(w) ==
    /\ wr[w].pc = "tx"
    /\ wr[w].k < wr[w].rec.n
    /\ isPgDup(w)
    /\ Failed(w, "ErrConcurrentModification")

\* SaveEvent, line 111, and withTx, line 220: any other failure of an insert
\* or of the commit
InsertError(w) ==
    /\ wr[w].pc = "tx"
    /\ Failed(w, "error")

\* withTx, line 220, SaveEvent, line 135, and Save, lines 321-347: the commit,
\* the result (id, version) and SetVersion; the snapshot is for instances of
\* snapshotThreshold events and more
Commit(w) ==
    /\ wr[w].pc = "tx"
    /\ wr[w].k = wr[w].rec.n
    /\ events' = events \cup Uncommitted(w)
    /\ wr' = [wr EXCEPT ![w].pc = "idle",
                        ![w].version = wr[w].rec.version + wr[w].k,
                        ![w].err = "nil",
                        ![w].ret = <<wr[w].id, wr[w].rec.version + wr[w].k>>]
    /\ UNCHANGED <<idempotencyUnique, clock, batch, notStore>>

\* a query that does not subtract the lag
safetyMarginNoLag(now, trailingLag) == now

\* GetEvents, line 300
safetyMargin(now, trailingLag) == now - trailingLag

\* the filter that lets every event pass
NoFilter == [aggregateTypes |-> {}]

\* buildFilter, lines 319-329: the aggregate types of the filter
buildFilter(e, filter) ==
    filter.aggregateTypes = {} \/ e.aggregateType \in filter.aggregateTypes

\* GetEvents, lines 296-304: the WHERE clause
Eligible(afterEventID, now, trailingLag, filter) ==
    {e \in events :
        /\ IDLess(afterEventID, e.id)
        /\ trailingLag # 0 => e.createdAt <= safetyMargin(now, trailingLag)
        /\ buildFilter(e, filter)}

\* GetEvents, line 305: ORDER BY id ASC
RECURSIVE OrderByID(_)
OrderByID(S) ==
    IF S = {} THEN <<>>
    ELSE LET first == CHOOSE e \in S : \A f \in S \ {e} : IDLess(e.id, f.id)
         IN  <<first>> \o OrderByID(S \ {first})

\* a LIMIT that keeps the last rows
LimitLast(rows, batchSize) ==
    IF batchSize > 0 /\ Len(rows) > batchSize
    THEN SubSeq(rows, Len(rows) - batchSize + 1, Len(rows)) ELSE rows

\* GetEvents, lines 306-309: LIMIT
Limit(rows, batchSize) ==
    IF batchSize > 0 /\ Len(rows) > batchSize THEN SubSeq(rows, 1, batchSize) ELSE rows

\* GetEvents, lines 295-316, with queryEvents: the rows of a query made at the time now
queryEvents(afterEventID, batchSize, now, trailingLag, filter) ==
    Limit(OrderByID(Eligible(afterEventID, now, trailingLag, filter)), batchSize)

\* the IDs a reader passes as afterEventID: none, or the last one it was given
AfterIDs ==
    {ZeroID} \cup {batch.events[Len(batch.events)].id : x \in {1} \cap DOMAIN batch.events}

\* GetEvents, lines 295-316, called at the time the clock shows
GetEvents(afterEventID, batchSize, trailingLag) ==
    /\ batch' = [now |-> clock, trailingLag |-> trailingLag,
                 afterEventID |-> afterEventID, batchSize |-> batchSize,
                 events |-> queryEvents(afterEventID, batchSize, clock, trailingLag,
                                      NoFilter)]
    /\ UNCHANGED <<idempotencyUnique, clock, events, wr, notStore>>

\* what writer w can do
WriterNext(w) ==
    \/ \E a \in Aggregates : NewAggregate(w, a)
    \/ \E a \in Aggregates : GetByID(w, a)
    \/ \E n \in 1..MaxDetails, key \in Keys, now \in 1..MaxTime : Save(w, n, key, now)
    \/ Insert(w)
    \/ InsertDup(w)
    \/ InsertError(w)
    \/ Commit(w)

\* writers whose Saves run at the same time
StoreNext == \E w \in Writers : WriterNext(w)

SpecStore == StoreInit /\ [][StoreNext]_vars

(***************************************************************************)
(* GetEvents with a filter: the text buildFilter adds to the query, the    *)
(* arguments it binds, and what the database answers                       *)
(***************************************************************************)
notFilter == <<balVars, storeVars, feedVars, bootVars, pollVars, partVars, sceneVars,
               mgrVars, feedEnd, esVars, fetched, failedAt, rel>>

\* the rows of the table are at most this many
MaxLabelled == 2
\* the number of partitions of a filter that has partitions
FilterPartitions == 3
\* the aggregate types of the rows
FilterTypes == 2
\* the keys and the values of the labels
LabelKeys == <<"geo", "env">>
LabelValues == {"EU", "US"}

\* the rows of the table events: the type, the hash and the labels of each
LabelledRows ==
    [aggregateType : 0..(FilterTypes - 1), aggregateIDHash : 0..(FilterPartitions - 1),
     labels : [{LabelKeys[1], LabelKeys[2]} -> LabelValues]]

\* the entries of Filter.Labels for one key: one value or two
EntriesOf(key) ==
    {[key |-> key, values |-> vs] :
        vs \in {<<"EU">>, <<"EU", "US">>}}

\* the filters asked: no types, one or two; no partitions, the partition 2
\* or the range 1..2; no label key, one or two
Filters ==
    [aggregateTypes : {<<>>, <<0>>, <<0, 1>>},
     partitions : {FilterPartitions},
     partitionsLow : 1..2, partitionsHi : {2},
     labels : {<<>>} \cup {<<e>> : e \in EntriesOf(LabelKeys[1])}
                     \cup {<<e, f>> : e \in EntriesOf(LabelKeys[1]),
                                      f \in EntriesOf(LabelKeys[2])}]
    \cup
    [aggregateTypes : {<<>>, <<0>>, <<0, 1>>},
     partitions : {0}, partitionsLow : {0}, partitionsHi : {0},
     labels : {<<>>} \cup {<<e>> : e \in EntriesOf(LabelKeys[1])}]

\* buildFilter, lines 331-340: the arguments appended for the partitions
partitionArgs(filter) ==
    IF filter.partitions > 0
    THEN IF filter.partitionsLow = filter.partitionsHi
         THEN <<filter.partitions, filter.partitionsLow - 1>>
         ELSE <<filter.partitions, filter.partitionsLow - 1, filter.partitionsHi - 1>>
    ELSE <<>>

\* GetEvents, line 295, and buildFilter, lines 319-340: the arguments bound to
\* the query, the types standing for themselves
queryArgs(filter) == <<ZeroID>> \o filter.aggregateTypes \o partitionArgs(filter)

\* buildFilter, lines 332-339: the placeholders written for the partitions,
\* size being the number of arguments before them: MOD(hash, $mod) = $lo, or
\* MOD(hash, $mod) BETWEEN $lo AND $hi
partitionPlaceholders(filter, size) ==
    IF filter.partitionsLow = filter.partitionsHi
    THEN [mod |-> size + 1, lo |-> size + 2, hi |-> size + 2]
    ELSE [mod |-> size + 1, lo |-> size + 2, hi |-> size + 4]

\* the placeholders the text of the query names: $1 of GetEvents, one for
\* each type, and the ones of the partitions
placeholders(filter) ==
    LET size == 1 + Len(filter.aggregateTypes)
        p == partitionPlaceholders(filter, size)
    IN  1..size \cup (IF filter.partitions > 0 THEN {p.mod, p.lo, p.hi} ELSE {})

\* buildFilter, lines 343-354: the parentheses written for the key of an
\* entry: one is opened before the values, and one is closed after each value
labelParens(entry) == [opened |-> 1, closed |-> Len(entry.values)]

\* the database accepts the statement when its parentheses match and the
\* arguments bound are the ones of the placeholders it names
accepted(filter) ==
    /\ placeholders(filter) = DOMAIN queryArgs(filter)
    /\ \A k \in DOMAIN filter.labels :
          labelParens(filter.labels[k]).opened = labelParens(filter.labels[k]).closed

\* buildFilter, lines 319-355: the condition of the text on a row, when the
\* statement is accepted
filterClause(e, filter) ==
    LET args == queryArgs(filter)
        p == partitionPlaceholders(filter, 1 + Len(filter.aggregateTypes))
    IN  /\ Len(filter.aggregateTypes) > 0 =>
              \E k \in DOMAIN filter.aggregateTypes : e.aggregateType = args[1 + k]
        /\ filter.partitions > 0 =>
              /\ e.aggregateIDHash % args[p.mod] >= args[p.lo]
              /\ e.aggregateIDHash % args[p.mod] <= args[p.hi]
        /\ \A k \in DOMAIN filter.labels :
              \E idx \in DOMAIN filter.labels[k].values :
                  e.labels[filter.labels[k].key] = filter.labels[k].values[idx]

\* GetEvents, lines 294-316, on a table of rows that are all after
\* afterEventID, without a lag and without a batch size: the error of the
\* database, or the rows of the condition in the order of their IDs
getEventsFiltered(rows, filter) ==
    LET Selected(e) == filterClause(e, filter)
    IN  IF accepted(filter)
        THEN [err |-> FALSE, out |-> SelectSeq(rows, Selected)]
        ELSE [err |-> TRUE, out |-> <<>>]

\* a row is saved with its labels
InsertLabelled(row) ==
    /\ Len(flt.rows) < MaxLabelled
    /\ flt' = [NoQuery EXCEPT !.rows = Append(flt.rows, row)]
    /\ UNCHANGED notFilter

\* GetEvents is called with a filter
GetEventsWith(filter) ==
    /\ LET r == getEventsFiltered(flt.rows, filter)
       IN  flt' = [rows |-> flt.rows, asked |-> TRUE, filter |-> filter,
                   err |-> r.err, out |-> r.out]
    /\ UNCHANGED notFilter

FilterInit ==
    /\ StoreIdle /\ FeedIdle /\ BalStart(0) /\ BootIdle /\ LaterIdle

FilterNext ==
    \/ \E row \in LabelledRows : InsertLabelled(row)
    \/ \E filter \in Filters : GetEventsWith(filter)

SpecFilter == FilterInit /\ [][FilterNext]_vars

\* the writers next to a reader
PollWriters == 1..NumPollWriters

\* writers, the passing of time and a reader that polls with GetEvents
PollNext ==
    \/ Tick
    \/ \E w \in PollWriters : WriterNext(w)
    \/ \E afterEventID \in AfterIDs, batchSize \in 0..MaxBatch,
          trailingLag \in {0, TrailingLag} :
            GetEvents(afterEventID, batchSize, trailingLag)

SpecPoll == StoreInit /\ [][PollNext]_vars

(***************************************************************************)
(* Polling feeder: the loop of spec 4.5 over EsRepository.GetEvents, next  *)
(* to writers whose transactions end in time                               *)
(***************************************************************************)
notPoll == <<balVars, feedVars, bootVars, partVars, sceneVars, mgrVars, moreVars>>

\* the clock may advance without any open transaction being left to commit
\* trailingLag or more after the createdAt of its record
Timely(trailingLag) ==
    \A w \in Writers :
        wr[w].pc = "tx" => clock + 1 < wr[w].rec.createdAt + trailingLag

\* time passes, and no writer is late
TimelyTick == Timely(TrailingLag) /\ Tick

\* a writer that reads the clock the poller reads: Save, line 281
TimedWriter(w) ==
    \/ \E a \in Aggregates : NewAggregate(w, a)
    \/ \E a \in Aggregates : GetByID(w, a)
    \/ \E n \in 1..MaxDetails : clock >= 1 /\ Save(w, n, 0, clock)
    \/ Insert(w)
    \/ InsertDup(w)
    \/ InsertError(w)
    \/ Commit(w)

\* the IDs of rows of open transactions that are lower than the ID of a committed row
Racing ==
    {r.id : r \in {x \in UNION {RecordRows(w, wr[w].rec) : w \in {v \in Writers : wr[v].pc = "tx"}} :
                      \E e \in events : IDLess(x.id, e.id)}}

\* spec 4.5, steps 2 and 3: one GetEvents after lastID with the trailing lag,
\* and the Sink of its events in their order; lastID advances with every
\* event sunk, and a Sink that fails ends the iteration after sunk events
Poll(batchSize, sunk) ==
    LET rows == queryEvents(poll.lastID, batchSize, clock, TrailingLag, NoFilter)
    IN  /\ sunk <= Len(rows)
        /\ poll' = [lastID |-> IF sunk = 0 THEN poll.lastID ELSE rows[sunk].id,
                    seen |-> poll.seen \o [i \in 1..sunk |-> rows[i].id],
                    raced |-> poll.raced \cup Racing]
        /\ UNCHANGED <<storeVars, notPoll>>

ListenInit == StoreIdle /\ BalStart(0) /\ FeedIdle /\ BootIdle /\ LaterIdle

ListenNext ==
    \/ TimelyTick
    \/ \E w \in Writers : TimedWriter(w)
    \/ \E batchSize \in 0..MaxBatch, sunk \in 0..MaxEvents : Poll(batchSize, sunk)

SpecListen == ListenInit /\ [][ListenNext]_vars

(***************************************************************************)
(* Push feeder: Feed.Feed over the change stream of the collection events  *)
(***************************************************************************)
\* common.Hash of an aggregate ID, stored with the document as aggregate_id_hash
Hash(a) == a

\* common.WhichPartition: the partition 1..N of an aggregate, 0 without partitions
WhichPartition(a, partitions) ==
    IF partitions = 0 THEN 0 ELSE (Hash(a) % partitions) + 1

\* a $match that compares the remainder with the partition numbers themselves
partitionMatchOffByOne(hash, partitions, partitionsLow, partitionsHi) ==
    IF partitions = 0 THEN TRUE
    ELSE IF partitionsLow = partitionsHi
         THEN hash % partitions = partitionsLow
         ELSE /\ hash % partitions >= partitionsLow
              /\ hash % partitions <= partitionsHi

\* partitionMatch, lines 121-152: the $match of the change stream's pipeline
partitionMatch(hash, partitions, partitionsLow, partitionsHi) ==
    IF partitions = 0 THEN TRUE
    ELSE IF partitionsLow = partitionsHi
         THEN hash % partitions = partitionsLow - 1
         ELSE /\ hash % partitions >= partitionsLow - 1
              /\ hash % partitions <= partitionsHi - 1

\* Feed, lines 90-93: the check of the partition made on the document read
partitionCheck(a, partitions, partitionsLow, partitionsHi) ==
    LET p == WhichPartition(a, partitions)
    IN  ~(p < partitionsLow \/ p > partitionsHi)

\* the number of events stored for aggregate a
RECURSIVE EventsOf(_, _)
EventsOf(a, d) ==
    IF d = 0 THEN 0
    ELSE EventsOf(a, d - 1) + (IF docs[d].aggregateID = a THEN docs[d].n ELSE 0)

\* a Save of n events of aggregate a inserts one document with n details.  The
\* document carries one version for all its details: the version of the first
\* or of the last of its events.
InsertDoc(a, n, ofLast) ==
    /\ Len(docs) < MaxDocs
    /\ LET v == EventsOf(a, Len(docs))
       IN  docs' = Append(docs, [id |-> Len(docs) + 1,
                                 aggregateID |-> a,
                                 aggregateVersion |-> IF ofLast THEN v + n ELSE v + 1,
                                 n |-> n])
    /\ UNCHANGED <<sink, feed, notFeed>>

\* store.LastEventIDInSink: the resume token of the last message in the sink
\* of the feeder's partition, 0 when there is no message
LastResumeToken ==
    IF sink = <<>> THEN 0 ELSE sink[Len(sink)].resumeToken

\* Feed, lines 56-80: Watch, after the resume token when there is one, from
\* now on when there is none
FeedStart ==
    /\ feed.pc = "stopped"
    /\ feed' = [pc |-> "running",
                pos |-> IF LastResumeToken # 0 THEN LastResumeToken ELSE Len(docs),
                inDoc |-> FALSE, k |-> 0]
    /\ UNCHANGED <<docs, sink, notFeed>>

\* the documents the stream has yet to yield: those after pos that match the pipeline
Ahead ==
    {d \in (feed.pos + 1)..Len(docs) :
        partitionMatch(Hash(docs[d].aggregateID), FeedPartitions,
                       FeedPartitionsLow, FeedPartitionsHi)}

\* Feed, lines 82-93: eventsStream.Next yields the next document; one of a
\* partition out of the range is passed over
FeedNext ==
    /\ feed.pc = "running"
    /\ ~feed.inDoc
    /\ Ahead # {}
    /\ LET d == CHOOSE x \in Ahead : \A y \in Ahead : x <= y
       IN  feed' = [feed EXCEPT !.pos = d,
                                !.inDoc = partitionCheck(docs[d].aggregateID, FeedPartitions,
                                                         FeedPartitionsLow, FeedPartitionsHi),
                                !.k = 0]
    /\ UNCHANGED <<docs, sink, notFeed>>

\* Feed, lines 95-108: the message of the detail k of the document at hand
Message(doc, k) ==
    [id |-> <<doc.id, k>>,
     resumeToken |-> doc.id,
     aggregateID |-> doc.aggregateID,
     aggregateVersion |-> doc.aggregateVersion]

\* Feed, lines 95-112: one detail is sunk
FeedSink ==
    /\ feed.pc = "running"
    /\ feed.inDoc
    /\ sink' = Append(sink, Message(docs[feed.pos], feed.k))
    /\ feed' = [feed EXCEPT !.k = @ + 1,
                            !.inDoc = feed.k + 1 < docs[feed.pos].n]
    /\ UNCHANGED <<docs, notFeed>>

\* Feed, lines 108-111: Sink fails and Feed returns the error
FeedSinkError ==
    /\ feed.pc = "running"
    /\ feed.inDoc
    /\ feed' = StoppedFeed
    /\ UNCHANGED <<docs, sink, notFeed>>

\* Feed, lines 82 and 114: the context is cancelled, the stream breaks or the
\* process dies
FeedStop ==
    /\ feed.pc = "running"
    /\ feed' = StoppedFeed
    /\ UNCHANGED <<docs, sink, notFeed>>

FeedInit == FeedIdle /\ StoreIdle /\ BalStart(0) /\ BootIdle /\ LaterIdle

FeedNextStep ==
    \/ \E a \in Aggregates, n \in 1..MaxDetails, ofLast \in BOOLEAN : InsertDoc(a, n, ofLast)
    \/ FeedStart
    \/ FeedNext
    \/ FeedSink
    \/ FeedSinkError
    \/ FeedStop

SpecFeed == FeedInit /\ [][FeedNextStep]_vars

(***************************************************************************)
(* The failures of Sink: Feed returns the error, and is started again      *)
(***************************************************************************)
notFail == <<balVars, storeVars, bootVars, pollVars, partVars, sceneVars, mgrVars, feedEnd,
            esVars, fetched, rel, flt>>

\* Feed, lines 108-111: Sink fails for the detail at hand and Feed returns
\* the error
SinkFails ==
    /\ feed.pc = "running"
    /\ feed.inDoc
    /\ feed' = StoppedFeed
    /\ failedAt' = failedAt \cup {<<feed.pos, feed.k>>}
    /\ UNCHANGED <<docs, sink, notFail>>

SinkFailNext ==
    \/ \E a \in Aggregates, n \in 1..MaxDetails, ofLast \in BOOLEAN : InsertDoc(a, n, ofLast)
    \/ FeedStart
    \/ FeedNext
    \/ FeedSink
    \/ SinkFails

SpecSinkFail == FeedInit /\ [][SinkFailNext]_vars

(***************************************************************************)
(* The return of Feed.Feed: the ways its loop ends and what it returns     *)
(***************************************************************************)
notEnd == <<balVars, storeVars, bootVars, pollVars, partVars, sceneVars, mgrVars, esVars,
           fetched, failedAt, rel, flt>>

\* a call of Feed ends for cause and returns err
Return(cause, err) == feedEnd' = [cause |-> cause, err |-> err]

\* Feed, lines 57-60: LastEventIDInSink fails and Feed returns the error
FeedLastEventError ==
    /\ feed.pc = "stopped"
    /\ Return("sinker", "error")
    /\ UNCHANGED <<docs, sink, feed, notEnd>>

\* Feed, lines 72-79: Watch fails and Feed returns the error
FeedWatchError ==
    /\ feed.pc = "stopped"
    /\ Return("watch", "error")
    /\ UNCHANGED <<docs, sink, feed, notEnd>>

\* Feed, lines 82 and 114: the context is cancelled, Next returns false, the
\* loop ends and Feed returns nil
FeedCancelled ==
    /\ feed.pc = "running"
    /\ ~feed.inDoc
    /\ feed' = StoppedFeed
    /\ Return("cancelled", "nil")
    /\ UNCHANGED <<docs, sink, notEnd>>

\* Feed, lines 82 and 114: the stream fails or the connection is lost, Next
\* returns false, the loop ends and Feed returns nil: the error of the
\* stream is never read
FeedStreamError ==
    /\ feed.pc = "running"
    /\ ~feed.inDoc
    /\ feed' = StoppedFeed
    /\ Return("stream", "nil")
    /\ UNCHANGED <<docs, sink, notEnd>>

\* Feed, lines 83-86: the document Next yielded does not decode and Feed
\* returns the error
FeedDecodeError ==
    /\ feed.pc = "running"
    /\ ~feed.inDoc
    /\ Ahead # {}
    /\ feed' = StoppedFeed
    /\ Return("decode", "error")
    /\ UNCHANGED <<docs, sink, notEnd>>

\* Feed, lines 108-111: Sink fails and Feed returns the error
FeedSinkFails ==
    /\ feed.pc = "running"
    /\ feed.inDoc
    /\ feed' = StoppedFeed
    /\ Return("sink", "error")
    /\ UNCHANGED <<docs, sink, notEnd>>

FeedEndNext ==
    \/ \E a \in Aggregates, n \in 1..MaxDetails, ofLast \in BOOLEAN : InsertDoc(a, n, ofLast)
    \/ FeedStart
    \/ FeedNext
    \/ FeedSink
    \/ FeedLastEventError
    \/ FeedWatchError
    \/ FeedCancelled
    \/ FeedStreamError
    \/ FeedDecodeError
    \/ FeedSinkFails

SpecFeedEnd == FeedInit /\ [][FeedEndNext]_vars

(***************************************************************************)
(* The restart of a feeder that owns several partitions of the sink        *)
(***************************************************************************)
\* the partition of the sink a message is published on
PartitionOf(msg) == WhichPartition(msg.aggregateID, ResumePartitions)

\* Sinker.LastMessage: the place in the sink of the last message published
\* on the partition, 0 when there is none
LastMessage(partition) ==
    LET at == {i \in DOMAIN sink : PartitionOf(sink[i]) = partition}
    IN  IF at = {} THEN 0 ELSE CHOOSE i \in at : \A j \in at : j <= i

\* store.LastEventIDInSink: the resume token of the smallest of the last
\* messages of the partitions lo..hi, 0 when no partition has a message
LastEventIDInSink(partitionsLow, partitionsHi) ==
    LET last == {LastMessage(p) : p \in partitionsLow..partitionsHi} \ {0}
    IN  IF last = {} THEN 0
        ELSE sink[CHOOSE i \in last : \A j \in last : i <= j].resumeToken

\* Feed, lines 56-80: Watch, after the resume token of the partitions when
\* there is one, from now on when there is none
ResumeStart ==
    /\ feed.pc = "stopped"
    /\ LET resumeToken == LastEventIDInSink(ResumeLow, ResumeHi)
       IN  feed' = [pc |-> "running",
                    pos |-> IF resumeToken # 0 THEN resumeToken ELSE Len(docs),
                    inDoc |-> FALSE, k |-> 0]
    /\ UNCHANGED <<docs, sink, notFeed>>

\* the documents the stream has yet to yield to the feeder of lo..hi
ResumeAhead ==
    {d \in (feed.pos + 1)..Len(docs) :
        partitionMatch(Hash(docs[d].aggregateID), ResumePartitions, ResumeLow, ResumeHi)}

\* Feed, lines 82-93: eventsStream.Next yields the next document
ResumeNext ==
    /\ feed.pc = "running"
    /\ ~feed.inDoc
    /\ ResumeAhead # {}
    /\ LET d == CHOOSE x \in ResumeAhead : \A y \in ResumeAhead : x <= y
       IN  feed' = [feed EXCEPT !.pos = d,
                                !.inDoc = partitionCheck(docs[d].aggregateID, ResumePartitions,
                                                         ResumeLow, ResumeHi),
                                !.k = 0]
    /\ UNCHANGED <<docs, sink, notFeed>>

\* Feed, lines 95-112: one detail is sunk, while the sink has room
ResumeSink ==
    /\ Len(sink) < MaxSink
    /\ FeedSink

ResumeStep ==
    \/ \E a \in Aggregates, n \in 1..MaxDetails, ofLast \in BOOLEAN : InsertDoc(a, n, ofLast)
    \/ ResumeStart
    \/ ResumeNext
    \/ ResumeSink
    \/ FeedSinkError
    \/ FeedStop

SpecResume == FeedInit /\ [][ResumeStep]_vars

(***************************************************************************)
(* The EventStore over a repository with snapshots                         *)
(* (src/eventstore.go, src/unnamed/part_000): Save with its snapshot,      *)
(* GetByID, Exec and Forget, for one client and one forgetter.             *)
(***************************************************************************)
notEs == <<balVars, storeVars, feedVars, bootVars, pollVars, partVars, sceneVars, mgrVars,
           feedEnd, fetched, failedAt, rel, flt>>

Owners == 1..NumOwners
EventKinds == {"OwnerUpdated", "MoneyDeposited"}

\* the events an aggregate of the test account raises: a new owner, or a
\* deposit of one unit
Raised ==
    {[kind |-> "OwnerUpdated", value |-> [owner |-> o, amount |-> 0]] : o \in Owners}
        \cup {[kind |-> "MoneyDeposited", value |-> [owner |-> 0, amount |-> 1]]}

\* the codec: the encoded form of a value is not the value
Encode(v) == <<"json", v>>
Decode(body) == body[2]

\* the state of a new aggregate, and the handler of the aggregate for an event
NewState == [owner |-> 0, balance |-> 0]

HandleEvent(state, kind, value) ==
    IF kind = "OwnerUpdated"
    THEN [state EXCEPT !.owner = value.owner]
    ELSE [state EXCEPT !.balance = state.balance + value.amount]

\* the instance a client holds: no instance is the aggregate 0
NewInstance(a) ==
    [aggregateID |-> a, version |-> 0, updatedAt |-> 0, state |-> NewState, events |-> <<>>]

NilInstance == NewInstance(0)

\* ApplyChange of the aggregate: the event changes the state and is pending
ApplyChange(i, evt) ==
    [i EXCEPT !.state = HandleEvent(i.state, evt.kind, evt.value),
              !.events = Append(i.events, evt)]

\* ClearEvents of the aggregate
ClearEvents(i) == [i EXCEPT !.events = <<>>]

\* the rows of the tables events and snapshots of one aggregate
RowsOf(tbl, a) == {r \in tbl : r.aggregateID = a}

\* GetSnapshot, lines 147-163: ORDER BY id DESC LIMIT 1, and the empty
\* snapshot when there is no row
EmptySnapshot ==
    [id |-> ZeroID, aggregateID |-> 0, aggregateVersion |-> 0, aggregateType |-> 0,
     body |-> <<>>, createdAt |-> 0]

GetSnapshot(snaps, a) ==
    IF RowsOf(snaps, a) = {}
    THEN EmptySnapshot
    ELSE CHOOSE s \in RowsOf(snaps, a) :
            \A t \in RowsOf(snaps, a) : t = s \/ IDLess(t.id, s.id)

\* the rows of a set in the order of their versions: ORDER BY
\* aggregate_version ASC
ByVersion(rows) ==
    IF rows = {}
    THEN <<>>
    ELSE CHOOSE s \in [1..Cardinality(rows) -> rows] :
            /\ \A j, k \in DOMAIN s : j < k => s[j].aggregateVersion < s[k].aggregateVersion

\* GetAggregateEvents, lines 181-200: the events above the version of the
\* snapshot, all of them for -1, and an error when there is none
SelectAggregateEvents(tbl, a, snapVersion) ==
    ByVersion({r \in RowsOf(tbl, a) : snapVersion > -1 => r.aggregateVersion > snapVersion})

GetAggregateEvents(tbl, a, snapVersion) ==
    IF Len(SelectAggregateEvents(tbl, a, snapVersion)) = 0
    THEN [events |-> <<>>, err |-> "not found"]
    ELSE [events |-> SelectAggregateEvents(tbl, a, snapVersion), err |-> "nil"]

\* ApplyChangeFromHistory, lines 248-258
ApplyChangeFromHistory(i, e) ==
    [i EXCEPT !.state = HandleEvent(i.state, e.kind, Decode(e.body)),
              !.version = e.aggregateVersion,
              !.updatedAt = e.createdAt]

RECURSIVE ApplyAll(_, _)
ApplyAll(i, es) ==
    IF es = <<>> THEN i ELSE ApplyAll(ApplyChangeFromHistory(i, Head(es)), Tail(es))

\* GetByID, lines 206-246: the aggregate of the latest snapshot, if any, with
\* the events above it applied; nil and the error when the events cannot be
\* got
LoadFrom(tbl, snaps, a) ==
    LET snap == GetSnapshot(snaps, a)
        fromSnap == IF Len(snap.body) # 0
                    THEN [NewInstance(a) EXCEPT !.state = Decode(snap.body),
                                                !.version = snap.aggregateVersion,
                                                !.updatedAt = snap.createdAt]
                    ELSE NilInstance
        got == IF snap.aggregateID = 0
               THEN GetAggregateEvents(tbl, a, -1)
               ELSE GetAggregateEvents(tbl, a, snap.aggregateVersion)
        first == IF fromSnap = NilInstance THEN NewInstance(a) ELSE fromSnap
    IN  IF got.err # "nil"
        THEN [aggregate |-> NilInstance, err |-> got.err]
        ELSE [aggregate |-> ApplyAll(first, got.events), err |-> "nil"]

\* SaveEvent, lines 85-136: the rows of the record, one version after the
\* other from the version of the instance, all at the time of the record
RecordOf(i, createdAt) ==
    {[id |-> NewEventID(createdAt, i.aggregateID, i.version + k),
      aggregateID |-> i.aggregateID,
      aggregateVersion |-> i.version + k,
      aggregateType |-> TypeOf(i.aggregateID),
      kind |-> i.events[k].kind,
      body |-> Encode(i.events[k].value),
      createdAt |-> createdAt] : k \in 1..Len(i.events)}

\* the unique index on (aggregate_id, aggregate_version) and the primary key
Duplicate(tbl, rows) ==
    \E r \in rows, t \in tbl :
        \/ r.id = t.id
        \/ r.aggregateID = t.aggregateID /\ r.aggregateVersion = t.aggregateVersion

\* GetEventsCounter of the aggregate: the events of the aggregate since its
\* last snapshot
LastSnapshotVersion(snaps, a) ==
    IF RowsOf(snaps, a) = {}
    THEN 0
    ELSE CHOOSE v \in {s.aggregateVersion : s \in RowsOf(snaps, a)} :
            \A s \in RowsOf(snaps, a) : s.aggregateVersion <= v

GetEventsCounter(tbl, snaps, a) ==
    Cardinality({r \in RowsOf(tbl, a) : r.aggregateVersion > LastSnapshotVersion(snaps, a)})

\* Save, line 324: the snapshot is due
snapshotDueAbove(eventsCounter) == eventsCounter > snapshotThreshold

snapshotDue(eventsCounter) == eventsCounter >= snapshotThreshold

\* Save, lines 269-348: what Save returns and leaves behind for the instance
\* i at the time now, when the insert of the snapshot fails or not
SaveResult(tbl, snaps, i, now, snapshotFails) ==
    LET createdAt == IF now <= i.updatedAt THEN i.updatedAt + 1 ELSE now
        rows == RecordOf(i, createdAt)
        lastVersion == i.version + Len(i.events)
        saved == [i EXCEPT !.version = lastVersion]
        snap == [id |-> NewEventID(createdAt, i.aggregateID, lastVersion),
                 aggregateID |-> i.aggregateID,
                 aggregateVersion |-> saved.version,
                 aggregateType |-> TypeOf(i.aggregateID),
                 body |-> Encode(saved.state),
                 createdAt |-> now]
    IN  IF Len(i.events) = 0
        THEN [err |-> "nil", aggregate |-> i, events |-> tbl, snapshots |-> snaps]
        ELSE IF Duplicate(tbl, rows)
        THEN [err |-> "ErrConcurrentModification", aggregate |-> i,
              events |-> tbl, snapshots |-> snaps]
        ELSE IF ~snapshotDue(GetEventsCounter(tbl \cup rows, snaps, i.aggregateID))
        THEN [err |-> "nil", aggregate |-> ClearEvents(saved),
              events |-> tbl \cup rows, snapshots |-> snaps]
        ELSE IF snapshotFails
        THEN [err |-> "snapshot", aggregate |-> saved,
              events |-> tbl \cup rows, snapshots |-> snaps]
        ELSE [err |-> "nil", aggregate |-> ClearEvents(saved),
              events |-> tbl \cup rows, snapshots |-> snaps \cup {snap}]

\* the rewrite of Forget, eventstore.go lines 362-382: the body is decoded,
\* the caller's function is applied, here the one that empties the owner, and
\* the result is encoded
zeroOwner(v) == [v EXCEPT !.owner = 0]

fun(kind, body) == Encode(zeroOwner(Decode(body)))

\* a Forget in progress is on the aggregate a
Forgetting(a) == fg.pc \in {"events", "snapshots"} /\ fg.aggregateID = a

\* the factory of the client: a new aggregate
EsNew(a) ==
    /\ inst' = NewInstance(a)
    /\ outcome' = NoOutcome
    /\ UNCHANGED <<table, snapshots, fg, notEs>>

\* the client changes its aggregate
EsApplyChange(evt) ==
    /\ inst.aggregateID # 0
    /\ Len(inst.events) < MaxPending
    /\ inst.version + Len(inst.events) < MaxAggVersion
    /\ inst' = ApplyChange(inst, evt)
    /\ outcome' = NoOutcome
    /\ UNCHANGED <<table, snapshots, fg, notEs>>

\* Save, lines 269-348, of the instance of the client
EsSave(now, snapshotFails) ==
    LET res == SaveResult(table, snapshots, inst, now, snapshotFails)
    IN  /\ inst.aggregateID # 0
        /\ ~Forgetting(inst.aggregateID)
        /\ inst.version + Len(inst.events) <= MaxAggVersion
        /\ Cardinality(table) + Len(inst.events) <= MaxRows
        /\ table' = res.events
        /\ snapshots' = res.snapshots
        /\ inst' = res.aggregate
        /\ outcome' = [op |-> "Save", aggregateID |-> inst.aggregateID, err |-> res.err,
                       called |-> FALSE, appended |-> res.events # table]
        /\ UNCHANGED <<fg, notEs>>

\* GetByID, lines 206-246: the client gets the aggregate, or nil
EsGetByID(a) ==
    LET res == LoadFrom(table, snapshots, a)
    IN  /\ inst' = res.aggregate
        /\ outcome' = [op |-> "GetByID", aggregateID |-> a, err |-> res.err,
                       called |-> FALSE, appended |-> FALSE]
        /\ UNCHANGED <<table, snapshots, fg, notEs>>

\* the handler function of Exec: it returns nil, or an error, or the aggregate
\* with one more event
Handlers ==
    {[kind |-> k, value |-> [owner |-> 0, amount |-> 0]] : k \in {"nil", "error"}} \cup Raised

\* Exec, lines 187-204
ExecResult(tbl, snaps, a, do, now, snapshotFails) ==
    LET got == LoadFrom(tbl, snaps, a)
        same == [err |-> "nil", called |-> FALSE, events |-> tbl, snapshots |-> snaps]
        res == SaveResult(tbl, snaps, ApplyChange(got.aggregate, do), now, snapshotFails)
    IN  IF got.err # "nil"
        THEN [same EXCEPT !.err = got.err]
        ELSE IF got.aggregate = NilInstance
        THEN [same EXCEPT !.err = "ErrUnknownAggregateID"]
        ELSE IF do.kind = "error"
        THEN [same EXCEPT !.err = "handler", !.called = TRUE]
        ELSE IF do.kind = "nil"
        THEN [same EXCEPT !.called = TRUE]
        ELSE [err |-> res.err, called |-> TRUE, events |-> res.events,
              snapshots |-> res.snapshots]

Exec(a, do, now, snapshotFails) ==
    LET res == ExecResult(table, snapshots, a, do, now, snapshotFails)
    IN  /\ ~Forgetting(a)
        /\ Cardinality(RowsOf(table, a)) < MaxAggVersion
        /\ Cardinality(table) < MaxRows
        /\ table' = res.events
        /\ snapshots' = res.snapshots
        /\ outcome' = [op |-> "Exec", aggregateID |-> a, err |-> res.err,
                       called |-> res.called, appended |-> res.events # table]
        /\ UNCHANGED <<inst, fg, notEs>>

\* Forget, part_000 lines 232-240: the events of the aggregate with the kind
\* are selected
ForgetBegin(a, kind) ==
    /\ fg.pc \in {"idle", "done"}
    /\ inst.aggregateID # a
    /\ fg' = [pc |-> "events", aggregateID |-> a, kind |-> kind,
              todo |-> {r.id : r \in {e \in RowsOf(table, a) : e.kind = kind}},
              err |-> "nil", events |-> table, snapshots |-> snapshots]
    /\ UNCHANGED <<table, snapshots, inst, outcome, notEs>>

\* lines 240-249: UPDATE events SET body = $1 WHERE ID = $2, for one of the
\* selected events
ForgetEvent ==
    /\ fg.pc = "events"
    /\ \E id \in fg.todo :
        /\ table' = {IF r.id = id THEN [r EXCEPT !.body = fun(r.kind, r.body)] ELSE r :
                        r \in table}
        /\ fg' = [fg EXCEPT !.todo = fg.todo \ {id}]
    /\ UNCHANGED <<snapshots, inst, outcome, notEs>>

\* lines 252-259: the snapshots of the aggregate are selected
ForgetSnapshots ==
    /\ fg.pc = "events"
    /\ fg.todo = {}
    /\ fg' = [fg EXCEPT !.pc = "snapshots",
                        !.todo = {s.id : s \in RowsOf(snapshots, fg.aggregateID)}]
    /\ UNCHANGED <<table, snapshots, inst, outcome, notEs>>

\* a Forget that leaves the snapshots as they are
ForgetSnapshotKept ==
    /\ fg.pc = "snapshots"
    /\ \E id \in fg.todo : fg' = [fg EXCEPT !.todo = fg.todo \ {id}]
    /\ UNCHANGED <<table, snapshots, inst, outcome, notEs>>

\* lines 261-270: UPDATE snapshots SET body = $1 WHERE ID = $2, for one of the
\* selected snapshots, rewritten under its aggregate type
ForgetSnapshot ==
    /\ fg.pc = "snapshots"
    /\ \E id \in fg.todo :
        /\ snapshots' = {IF s.id = id THEN [s EXCEPT !.body = fun(s.aggregateType, s.body)]
                                      ELSE s : s \in snapshots}
        /\ fg' = [fg EXCEPT !.todo = fg.todo \ {id}]
    /\ UNCHANGED <<table, inst, outcome, notEs>>

\* line 272: return nil
ForgetReturn ==
    /\ fg.pc = "snapshots"
    /\ fg.todo = {}
    /\ fg' = [NoForget EXCEPT !.pc = "done"]
    /\ UNCHANGED <<table, snapshots, inst, outcome, notEs>>

\* a query or an update of Forget fails: the error is returned and what was
\* rewritten stays rewritten
ForgetFails ==
    /\ fg.pc \in {"events", "snapshots"}
    /\ fg' = [NoForget EXCEPT !.pc = "done", !.err = "error"]
    /\ UNCHANGED <<table, snapshots, inst, outcome, notEs>>

EsInit == BalStart(0) /\ StoreIdle /\ FeedIdle /\ BootIdle /\ LaterIdle

\* the client alone
ClientNext ==
    \/ \E a \in Aggregates : EsNew(a)
    \/ \E evt \in Raised : EsApplyChange(evt)
    \/ \E now \in 1..MaxNow, snapshotFails \in BOOLEAN : EsSave(now, snapshotFails)
    \/ \E a \in Aggregates : EsGetByID(a)
    \/ \E a \in Aggregates, do \in Handlers, now \in 1..MaxNow, snapshotFails \in BOOLEAN :
            Exec(a, do, now, snapshotFails)

SpecSnapshots == EsInit /\ [][ClientNext]_vars

\* the client and a call of Forget at a time
ForgetNext ==
    \/ \E a \in Aggregates : EsNew(a)
    \/ \E evt \in Raised : EsApplyChange(evt)
    \/ \E now \in 1..MaxNow, snapshotFails \in BOOLEAN : EsSave(now, snapshotFails)
    \/ \E a \in Aggregates : EsGetByID(a)
    \/ \E a \in Aggregates, do \in Handlers, now \in 1..MaxNow, snapshotFails \in BOOLEAN :
            Exec(a, do, now, snapshotFails)
    \/ \E a \in Aggregates, kind \in EventKinds : ForgetBegin(a, kind)
    \/ ForgetEvent
    \/ ForgetSnapshots
    \/ ForgetSnapshot
    \/ ForgetReturn
    \/ ForgetFails

SpecForget == EsInit /\ [][ForgetNext]_vars

(***************************************************************************)
(* Push feeder: the way of one inserted event through the two checks of    *)
(* its partition, for every configuration of the feeder                    *)
(***************************************************************************)
notPart == <<balVars, storeVars, feedVars, bootVars, pollVars, sceneVars, mgrVars, moreVars>>

\* WithPartitions, lines 26-32: no partitions and the range [0,0], or
\* partitions 1..N and a range within them
FeedOptions ==
    {<<0, 0, 0>>} \cup
    {<<n, lo, hi>> : n \in 1..MaxPartitions, lo \in 1..MaxPartitions, hi \in 1..MaxPartitions}

\* one event is inserted for a feeder with one of the configurations
PartitionInit ==
    /\ \E a \in 0..MaxAggregateID, o \in FeedOptions :
          /\ o[2] <= o[3] /\ o[3] <= o[1]
          /\ part = [pc |-> "inserted", aggregateID |-> a, partitions |-> o[1],
                     partitionsLow |-> o[2], partitionsHi |-> o[3]]
    /\ BalStart(0) /\ StoreIdle /\ FeedIdle /\ BootIdle
    /\ PollIdle /\ SceneIdle /\ MgrIdle /\ MoreIdle

\* Feed, lines 62-76: the change stream yields the insert or the pipeline drops it
Watch ==
    /\ part.pc = "inserted"
    /\ part' = [part EXCEPT !.pc =
                    IF partitionMatch(Hash(part.aggregateID), part.partitions,
                                      part.partitionsLow, part.partitionsHi)
                    THEN "streamed" ELSE "filtered"]
    /\ UNCHANGED notPart

\* Feed, lines 89-112: the document read is sunk or passed over
CheckPartition ==
    /\ part.pc = "streamed"
    /\ part' = [part EXCEPT !.pc =
                    IF partitionCheck(part.aggregateID, part.partitions,
                                      part.partitionsLow, part.partitionsHi)
                    THEN "sunk" ELSE "skipped"]
    /\ UNCHANGED notPart

PartitionNext == Watch \/ CheckPartition

SpecPartition == PartitionInit /\ [][PartitionNext]_vars

(***************************************************************************)
(* Projection boot: BootableManager.OnBoot over the store and the bus      *)
(***************************************************************************)
\* Projection.GetAggregateTypes: the aggregate types of the projection
GetAggregateTypes == {0}

\* eventid.DelayEventID: the ID with its time lowered by the lag
DelayEventID(id, lag) == <<IF id[1] > lag THEN id[1] - lag ELSE 0, id[2], id[3]>>

\* the greatest of a set of IDs, the zero ID for none
MaxID(ids) ==
    IF ids = {} THEN ZeroID
    ELSE CHOOSE x \in ids : \A y \in ids \ {x} : IDLess(y, x)

\* Projection.GetResumeEventID: the ID of the last event the projection has handled
GetResumeEventID == MaxID(handled)

\* OnBoot is between its call and its return
Booting == boot.pc \in {"replay", "token", "tail", "start"}

\* a Save of one event, from the load of the aggregate to the commit, by a
\* writer whose clock shows now
SaveOne(a, now) ==
    LET known == \E e \in events : e.aggregateID = a
        version == IF known THEN LastEventOf(a).aggregateVersion ELSE 0
        updatedAt == IF known THEN LastEventOf(a).createdAt ELSE 0
        createdAt == IF now <= updatedAt THEN updatedAt + 1 ELSE now
        row == Row(1, [aggregateID |-> a, version |-> version, createdAt |-> createdAt,
                       idempotencyKey |-> 0, n |-> 1], 1)
    IN  /\ createdAt <= MaxTime
        /\ version < MaxVersion
        /\ Cardinality(events) < MaxEvents
        /\ events' = events \cup {row}
        /\ pending' = Append(pending, row)
        /\ insertedOnBoot' = IF Booting THEN insertedOnBoot \cup {row.id} ELSE insertedOnBoot
        /\ UNCHANGED <<bus, boot, handled, notBoot>>

\* the forwarder publishes the next committed event on the topic
Forward ==
    /\ pending # <<>>
    /\ bus' = Append(bus, Head(pending))
    /\ pending' = Tail(pending)
    /\ UNCHANGED <<events, boot, handled, insertedOnBoot, notBoot>>

\* OnBoot, lines 107-110, and boot, lines 128-150: the resume ID, delayed
OnBoot ==
    /\ boot.pc = "off"
    /\ boot' = [BootOff EXCEPT !.pc = "replay",
                               !.afterEventID = DelayEventID(GetResumeEventID, TrailingLag)]
    /\ insertedOnBoot' = {}
    /\ UNCHANGED <<events, pending, bus, handled, notBoot>>

\* the events Replay has yet to handle
ToReplay == Eligible(boot.afterEventID, 0, 0, [aggregateTypes |-> GetAggregateTypes])

\* boot, line 151, Replayer.Replay: the next event of the history is handled
ReplayOne ==
    /\ boot.pc = "replay"
    /\ ToReplay # {}
    /\ LET e == OrderByID(ToReplay)[1]
       IN  /\ handled' = handled \cup {e.id}
           /\ boot' = [boot EXCEPT !.afterEventID = e.id]
    /\ UNCHANGED <<events, pending, bus, insertedOnBoot, notBoot>>

\* boot, lines 151-154: the history is exhausted, Replay returns the last ID
ReplayDone ==
    /\ boot.pc = "replay"
    /\ ToReplay = {}
    /\ boot' = [boot EXCEPT !.pc = "token", !.lastEventID = boot.afterEventID]
    /\ UNCHANGED <<events, pending, bus, handled, insertedOnBoot, notBoot>>

\* boot, lines 156-164: the resume token of the topic, the place of its last message
GetResumeToken ==
    /\ boot.pc = "token"
    /\ boot' = [boot EXCEPT !.pc = "tail", !.token = Len(bus)]
    /\ UNCHANGED <<events, pending, bus, handled, insertedOnBoot, notBoot>>

\* boot, lines 166-178: the events after the last replayed ID are handled
TailReplay ==
    /\ boot.pc = "tail"
    /\ LET tail == queryEvents(boot.lastEventID, 0, 0, 0,
                               [aggregateTypes |-> GetAggregateTypes])
       IN  handled' = handled \cup {tail[i].id : i \in DOMAIN tail}
    /\ boot' = [boot EXCEPT !.pc = "start"]
    /\ UNCHANGED <<events, pending, bus, insertedOnBoot, notBoot>>

\* boot, lines 179-193, and OnBoot, lines 116-123: the consumer starts after
\* the token, and OnBoot returns
StartConsumer ==
    /\ boot.pc = "start"
    /\ boot' = [boot EXCEPT !.pc = "live", !.consumer = boot.token]
    /\ UNCHANGED <<events, pending, bus, handled, insertedOnBoot, notBoot>>

\* the consumer hands the next message of the topic to the Handler
Consume ==
    /\ boot.pc = "live"
    /\ boot.consumer < Len(bus)
    /\ handled' = handled \cup {bus[boot.consumer + 1].id}
    /\ boot' = [boot EXCEPT !.consumer = @ + 1]
    /\ UNCHANGED <<events, pending, bus, insertedOnBoot, notBoot>>

\* Cancel, lines 196-203: the boot context is cancelled and the consumer ends
Cancel ==
    /\ boot.pc = "live"
    /\ boot' = BootOff
    /\ UNCHANGED <<events, pending, bus, handled, insertedOnBoot, notBoot>>

BootInit == BootIdle /\ StoreIdle /\ FeedIdle /\ BalStart(0) /\ LaterIdle

BootNext ==
    \/ \E a \in Aggregates, now \in 1..MaxTime : SaveOne(a, now)
    \/ Forward
    \/ OnBoot
    \/ ReplayOne
    \/ ReplayDone
    \/ GetResumeToken
    \/ TailReplay
    \/ StartConsumer
    \/ Consume
    \/ Cancel

SpecBoot == BootInit /\ [][BootNext]_vars

(***************************************************************************)
(* BootableManager: OnBoot step by step over the partitions lo..hi, and    *)
(* Wait, Freeze, Unfreeze and Cancel over the mutex and the channels       *)
(***************************************************************************)
notMgr == <<balVars, idempotencyUnique, clock, wr, batch, feedVars, boot,
            pollVars, partVars, sceneVars, moreVars>>

Threads == 1..NumThreads

\* NewBootableManager, lines 65-86: wait is a channel made and closed, the
\* other fields have their zero values; no OnBoot is in progress
NewBootableManager ==
    [cancel |-> 0, wait |-> 1, closed |-> FALSE, frozen |-> <<>>, hasLock |-> FALSE,
     mu |-> 0, notifiers |-> 0, dead |-> {},
     pc |-> "idle", boots |-> 0, afterEventID |-> ZeroID, lastEventID |-> ZeroID,
     tokens |-> <<>>, started |-> <<>>]

\* a thread that is in no call
NoCall == [op |-> "none", pc |-> "done", ch |-> 0, i |-> 0, locked |-> FALSE,
           ret |-> FALSE, since |-> "none", before |-> {}]

\* boot, line 157: the number of partitions of the manager
partitionSize == partitionHi - partitionLo + 1

\* one call of OnBoot, as the log keeps it
Step(op, id, partition, token) ==
    [op |-> op, id |-> id, partition |-> partition, token |-> token]

\* Subscriber.GetResumeToken: the place of the last message of one partition
\* of the topic
ResumeTokenOf(partition) ==
    Cardinality({k \in DOMAIN bus :
                    WhichPartition(bus[k].aggregateID, TopicPartitions) = partition})

\* a token of the wrong partition: the first one for every consumer
tokenForFirst(tokens, i) == tokens[1]

\* boot, line 182: tokens[i], the token captured for partition lo+i (i from 0)
tokenFor(tokens, i) == tokens[i + 1]

\* context.CancelFunc: the consumers started with the context are told to stop
cancelled(cs, ctx) ==
    [k \in DOMAIN cs |->
        IF cs[k].ctx = ctx /\ cs[k].state = "running"
        THEN [cs[k] EXCEPT !.state = "cancelled"] ELSE cs[k]]

\* OnBoot, lines 107-110, and boot, lines 128-150: a new context, its cancel
\* function stored without the mutex, and the resume ID, delayed
bootBegin ==
    /\ ~hist.panicked
    /\ mgr.pc = "idle"
    /\ mgr.boots < MaxBoots
    /\ mgr' = [mgr EXCEPT !.pc = "replay", !.boots = @ + 1, !.cancel = mgr.boots + 1,
                          !.afterEventID = DelayEventID(GetResumeEventID, TrailingLag),
                          !.lastEventID = ZeroID, !.tokens = <<>>, !.started = <<>>]
    /\ steps' = <<Step("GetResumeEventID", GetResumeEventID, 0, 0),
                  Step("DelayEventID", DelayEventID(GetResumeEventID, TrailingLag), 0, 0)>>
    /\ UNCHANGED <<events, pending, bus, handled, insertedOnBoot, wch, cons, calls, hist,
                   notMgr>>

\* boot, lines 151-154, Replayer.Replay: the history after the delayed ID is
\* handled until it is exhausted
bootReplay ==
    /\ ~hist.panicked
    /\ mgr.pc = "replay"
    /\ LET rows == queryEvents(mgr.afterEventID, 0, 0, 0,
                               [aggregateTypes |-> GetAggregateTypes])
       IN  /\ handled' = handled \cup {rows[k].id : k \in DOMAIN rows}
           /\ mgr' = [mgr EXCEPT !.pc = "token",
                                 !.lastEventID = IF rows = <<>> THEN mgr.afterEventID
                                                 ELSE rows[Len(rows)].id]
    /\ steps' = Append(steps, Step("Replay", mgr.afterEventID, 0, 0))
    /\ UNCHANGED <<events, pending, bus, insertedOnBoot, wch, cons, calls, hist, notMgr>>

\* boot, lines 156-164: the resume token of the next partition
bootToken ==
    /\ ~hist.panicked
    /\ mgr.pc = "token"
    /\ LET i == Len(mgr.tokens)
           token == ResumeTokenOf(partitionLo + i)
       IN  /\ mgr' = [mgr EXCEPT !.tokens = Append(@, token),
                                 !.pc = IF i + 1 < partitionSize THEN "token" ELSE "tail"]
           /\ steps' = Append(steps, Step("GetResumeToken", ZeroID, partitionLo + i, token))
    /\ UNCHANGED <<events, pending, bus, handled, insertedOnBoot, wch, cons, calls, hist,
                   notMgr>>

\* boot, lines 166-178: the events after the last replayed ID are queried and
\* handled
bootTail ==
    /\ ~hist.panicked
    /\ mgr.pc = "tail"
    /\ LET tail == queryEvents(mgr.lastEventID, 0, 0, 0,
                               [aggregateTypes |-> GetAggregateTypes])
       IN  handled' = handled \cup {tail[k].id : k \in DOMAIN tail}
    /\ mgr' = [mgr EXCEPT !.pc = "start"]
    /\ steps' = Append(steps, Step("GetEvents", mgr.lastEventID, 0, 0))
    /\ UNCHANGED <<events, pending, bus, insertedOnBoot, wch, cons, calls, hist, notMgr>>

\* boot, lines 179-187: the consumer of the next partition starts with the
\* context of this OnBoot, and its channel is kept
bootConsumer ==
    /\ ~hist.panicked
    /\ mgr.pc = "start"
    /\ LET i == Len(mgr.started)
           token == tokenFor(mgr.tokens, i)
       IN  /\ cons' = Append(cons, [partition |-> partitionLo + i, token |-> token,
                                    ctx |-> mgr.boots,
                                    state |-> IF mgr.boots \in mgr.dead THEN "cancelled"
                                              ELSE "running"])
           /\ mgr' = [mgr EXCEPT !.started = Append(@, Len(cons) + 1),
                                 !.pc = IF i + 1 < partitionSize THEN "start" ELSE "frozen"]
           /\ steps' = Append(steps, Step("StartConsumer", ZeroID, partitionLo + i, token))
    /\ UNCHANGED <<events, pending, bus, handled, insertedOnBoot, wch, calls, hist, notMgr>>

\* boot, lines 189-193: under the mutex, the channels become m.frozen
bootFrozen ==
    /\ ~hist.panicked
    /\ mgr.pc = "frozen"
    /\ mgr.mu = 0
    /\ mgr' = [mgr EXCEPT !.frozen = mgr.started, !.pc = "notifier"]
    /\ UNCHANGED <<events, pending, bus, handled, insertedOnBoot, wch, cons, calls, steps,
                   hist, notMgr>>

\* OnBoot, line 116: the manager registers with the notifier
StartNotifier ==
    /\ ~hist.panicked
    /\ mgr.pc = "notifier"
    /\ mgr' = [mgr EXCEPT !.notifiers = @ + 1, !.pc = "hasLock"]
    /\ steps' = Append(steps, Step("StartNotifier", ZeroID, 0, 0))
    /\ UNCHANGED <<events, pending, bus, handled, insertedOnBoot, wch, cons, calls, hist,
                   notMgr>>

\* a Freeze is between its Lock and its return
Freezing == mgr.mu # 0 /\ calls[mgr.mu].op = "Freeze"

\* OnBoot, lines 122-123: hasLock is set without the mutex, and OnBoot
\* returns nil
bootDone ==
    /\ ~hist.panicked
    /\ mgr.pc = "hasLock"
    /\ mgr' = [mgr EXCEPT !.hasLock = TRUE, !.pc = "idle"]
    /\ steps' = Append(steps, Step("return", ZeroID, 0, 0))
    /\ hist' = IF Freezing THEN [hist EXCEPT !.inside = IF @ < 2 THEN @ + 1 ELSE @]
               ELSE [hist EXCEPT !.lock = {TRUE}]
    /\ UNCHANGED <<events, pending, bus, handled, insertedOnBoot, wch, cons, calls, notMgr>>

\* OnBoot that returns the error of a step without calling m.cancel
bootErrorKeepsContext ==
    /\ ~hist.panicked
    /\ mgr.pc \in {"replay", "token", "tail", "start", "notifier"}
    /\ mgr' = [mgr EXCEPT !.pc = "idle"]
    /\ cons' = cons
    /\ steps' = Append(steps, Step("error", ZeroID, 0, 0))
    /\ UNCHANGED <<events, pending, bus, handled, insertedOnBoot, wch, calls, hist, notMgr>>

\* OnBoot, lines 111-114 and 117-120: a step of OnBoot fails, the context is
\* cancelled and OnBoot returns the error
bootError ==
    /\ ~hist.panicked
    /\ mgr.pc \in {"replay", "token", "tail", "start", "notifier"}
    /\ mgr' = [mgr EXCEPT !.pc = "idle", !.dead = @ \cup {mgr.cancel}]
    /\ cons' = cancelled(cons, mgr.cancel)
    /\ steps' = Append(steps, Step("error", ZeroID, 0, 0))
    /\ UNCHANGED <<events, pending, bus, handled, insertedOnBoot, wch, calls, hist, notMgr>>

\* a consumer whose context is cancelled stops, and its channel closes
consumerStops(k) ==
    /\ ~hist.panicked
    /\ cons[k].state = "cancelled"
    /\ cons' = [cons EXCEPT ![k].state = "closed"]
    /\ UNCHANGED <<events, pending, bus, handled, insertedOnBoot, mgr, wch, calls, steps,
                   hist, notMgr>>

\* a consumer whose context is cancelled does not stop: its channel stays
\* open for ever
consumerHangs(k) ==
    /\ ~hist.panicked
    /\ cons[k].state = "cancelled"
    /\ cons' = [cons EXCEPT ![k].state = "stuck"]
    /\ UNCHANGED <<events, pending, bus, handled, insertedOnBoot, mgr, wch, calls, steps,
                   hist, notMgr>>

\* Wait, lines 93-96: under the mutex the caller takes the channel m.wait
waitBegin(t) ==
    /\ calls[t].pc = "done"
    /\ mgr.mu = 0
    /\ calls' = [calls EXCEPT ![t] = [NoCall EXCEPT !.op = "Wait", !.pc = "blocked",
                                                    !.ch = mgr.wait,
                                                    !.since = IF hist.frozen THEN "frozen"
                                                              ELSE "open"]]
    /\ UNCHANGED <<events, pending, bus, handled, insertedOnBoot, mgr, wch, cons, steps,
                   hist, notMgr>>

\* Wait, lines 98-104: the channel taken is closed, and under the mutex the
\* caller makes a new release channel and returns it
waitReturn(t) ==
    /\ calls[t].op = "Wait"
    /\ calls[t].pc = "blocked"
    /\ wch[calls[t].ch] = "closed"
    /\ mgr.mu = 0
    /\ calls' = [calls EXCEPT ![t].pc = "done"]
    /\ UNCHANGED <<events, pending, bus, handled, insertedOnBoot, mgr, wch, cons, steps,
                   hist, notMgr>>

\* Freeze that keeps the channel m.wait it found
freezeWaitKept(m, chs) == m.wait

\* Freeze, line 210: m.wait = make(chan struct{}), the next channel
freezeWait(m, chs) == Len(chs) + 1

\* Freeze, lines 206-213: the mutex is taken, the context of the last OnBoot
\* is cancelled, and m.wait becomes a new, open channel
freezeBegin(t) ==
    /\ calls[t].pc = "done"
    /\ mgr.mu = 0
    /\ Len(wch) < MaxChannels
    /\ mgr' = [mgr EXCEPT !.mu = t, !.wait = freezeWait(mgr, wch), !.closed = FALSE,
                          !.dead = IF mgr.cancel = 0 THEN @ ELSE @ \cup {mgr.cancel}]
    /\ cons' = IF mgr.cancel = 0 THEN cons ELSE cancelled(cons, mgr.cancel)
    /\ wch' = Append(wch, "open")
    /\ calls' = [calls EXCEPT ![t] = [NoCall EXCEPT !.op = "Freeze", !.pc = "check",
                                                    !.before = hist.lock]]
    /\ hist' = [hist EXCEPT !.frozen = TRUE, !.inside = 0]
    /\ UNCHANGED <<events, pending, bus, handled, insertedOnBoot, steps, notMgr>>

\* Freeze, line 215: with the lock, the channels of the consumers are waited for
freezeCheck(t) ==
    /\ calls[t].op = "Freeze"
    /\ calls[t].pc = "check"
    /\ calls' = [calls EXCEPT ![t].pc = IF mgr.hasLock /\ mgr.frozen # <<>> THEN "drain"
                                        ELSE "read",
                              ![t].i = 1]
    /\ UNCHANGED <<events, pending, bus, handled, insertedOnBoot, mgr, wch, cons, steps,
                   hist, notMgr>>

\* Freeze, lines 217-219: the receive from the next channel of m.frozen
\* returns when the channel is closed
freezeDrain(t) ==
    /\ calls[t].op = "Freeze"
    /\ calls[t].pc = "drain"
    /\ cons[mgr.frozen[calls[t].i]].state = "closed"
    /\ calls' = [calls EXCEPT ![t].i = @ + 1,
                              ![t].pc = IF calls[t].i < Len(mgr.frozen) THEN "drain"
                                        ELSE "read"]
    /\ UNCHANGED <<events, pending, bus, handled, insertedOnBoot, mgr, wch, cons, steps,
                   hist, notMgr>>

\* Freeze, line 221: locked := m.hasLock
freezeRead(t) ==
    /\ calls[t].op = "Freeze"
    /\ calls[t].pc = "read"
    /\ calls' = [calls EXCEPT ![t].pc = "write", ![t].locked = mgr.hasLock]
    /\ UNCHANGED <<events, pending, bus, handled, insertedOnBoot, mgr, wch, cons, steps,
                   hist, notMgr>>

\* the values of "the instance holds the lock" after a Freeze that returned
\* ret: before the Freeze they were in before, and inside OnBoot calls
\* completed while the Freeze was in progress. The Freeze took effect before
\* all of them, or after one of them
FreezeOutcomes(before, inside, ret) ==
    (IF ret \in before THEN {inside > 0} ELSE {})
        \cup (IF inside >= 1 /\ ret THEN {FALSE} ELSE {})
        \cup (IF inside >= 2 /\ ret THEN {TRUE} ELSE {})

\* Freeze, lines 222-226: hasLock is cleared, the mutex is released and
\* locked is returned
freezeReturn(t) ==
    /\ calls[t].op = "Freeze"
    /\ calls[t].pc = "write"
    /\ mgr' = [mgr EXCEPT !.hasLock = FALSE, !.mu = 0]
    /\ calls' = [calls EXCEPT ![t].pc = "done", ![t].ret = calls[t].locked]
    /\ hist' = [hist EXCEPT !.lock = FreezeOutcomes(calls[t].before, hist.inside,
                                                    calls[t].locked),
                            !.inside = 0]
    /\ UNCHANGED <<events, pending, bus, handled, insertedOnBoot, wch, cons, steps, notMgr>>

\* the callers of Wait that an Unfreeze has come for
unfrozen(cs) ==
    [t \in DOMAIN cs |->
        IF cs[t].op = "Wait" /\ cs[t].pc = "blocked" /\ cs[t].since = "frozen"
        THEN [cs[t] EXCEPT !.since = "unfrozen"] ELSE cs[t]]

\* Unfreeze, lines 232-237: under the mutex, m.wait is closed unless the flag
\* closed says it is
Unfreeze(t) ==
    /\ calls[t].pc = "done"
    /\ mgr.mu = 0
    /\ mgr.closed \/ wch[mgr.wait] = "open"
    /\ mgr' = [mgr EXCEPT !.closed = TRUE]
    /\ wch' = [wch EXCEPT ![mgr.wait] = "closed"]
    /\ calls' = [unfrozen(calls) EXCEPT ![t] = [NoCall EXCEPT !.op = "Unfreeze"]]
    /\ hist' = [hist EXCEPT !.frozen = FALSE]
    /\ UNCHANGED <<events, pending, bus, handled, insertedOnBoot, cons, steps, notMgr>>

\* Unfreeze, lines 232-234: the flag closed is false and m.wait is the closed
\* channel of NewBootableManager: close panics, with the mutex held
UnfreezePanics(t) ==
    /\ calls[t].pc = "done"
    /\ mgr.mu = 0
    /\ ~mgr.closed
    /\ wch[mgr.wait] = "closed"
    /\ mgr' = [mgr EXCEPT !.mu = t]
    /\ calls' = [calls EXCEPT ![t] = [NoCall EXCEPT !.op = "Unfreeze", !.pc = "panic"]]
    /\ hist' = [hist EXCEPT !.panicked = TRUE]
    /\ UNCHANGED <<events, pending, bus, handled, insertedOnBoot, wch, cons, steps, notMgr>>

\* Cancel, lines 196-202: under the mutex, the context of the last OnBoot is
\* cancelled
CancelCall(t) ==
    /\ calls[t].pc = "done"
    /\ mgr.mu = 0
    /\ mgr.cancel # 0
    /\ mgr' = [mgr EXCEPT !.dead = @ \cup {mgr.cancel}]
    /\ cons' = cancelled(cons, mgr.cancel)
    /\ calls' = [calls EXCEPT ![t] = [NoCall EXCEPT !.op = "Cancel"]]
    /\ UNCHANGED <<events, pending, bus, handled, insertedOnBoot, wch, steps, hist, notMgr>>

ManagerInit ==
    /\ StoreIdle /\ FeedIdle /\ BalStart(0) /\ BootIdle
    /\ PollIdle /\ PartIdle /\ SceneIdle /\ MoreIdle
    /\ mgr = NewBootableManager
    /\ wch = <<"closed">>
    /\ cons = <<>>
    /\ calls = [t \in Threads |-> NoCall]
    /\ steps = <<>>
    /\ hist = NoHist

\* the steps of OnBoot
bootNext ==
    \/ bootBegin
    \/ bootReplay
    \/ bootToken
    \/ bootTail
    \/ bootConsumer
    \/ bootFrozen
    \/ StartNotifier
    \/ bootDone
    \/ bootError

\* OnBoot, while events are saved and forwarded to the topic
OnBootNext ==
    \/ \E a \in Aggregates, now \in 1..MaxTime : SaveOne(a, now)
    \/ Forward
    \/ bootNext

SpecOnBoot == ManagerInit /\ [][OnBootNext]_vars

\* OnBoot, the consumers, and the threads that call Wait, Freeze, Unfreeze
\* and Cancel. A panic ends the process: the mutex it holds stops the
\* threads, and OnBoot and the consumers stop with it
ManagerNext ==
    \/ bootNext
    \/ \E k \in DOMAIN cons : consumerStops(k)
    \/ \E k \in DOMAIN cons : consumerHangs(k)
    \/ \E t \in Threads :
         \/ waitBegin(t)
         \/ waitReturn(t)
         \/ freezeBegin(t)
         \/ freezeCheck(t)
         \/ freezeDrain(t)
         \/ freezeRead(t)
         \/ freezeReturn(t)
         \/ Unfreeze(t)
         \/ UnfreezePanics(t)
         \/ CancelCall(t)

SpecManager == ManagerInit /\ [][ManagerNext]_vars

(***************************************************************************)
(* Freeze while OnBoot is in progress: the calls of boot that take the     *)
(* context fail once it is cancelled, and the second part of boot hands    *)
(* the events it fetched to the Handler one by one                         *)
(***************************************************************************)
notTail == <<balVars, idempotencyUnique, clock, wr, batch, feedVars, boot,
             pollVars, partVars, sceneVars, feedEnd, esVars, failedAt, rel,
             flt>>

\* the context of the OnBoot in progress is not cancelled
alive == mgr.cancel \notin mgr.dead

\* boot, lines 151-154: Replay with a live context
replayAlive == alive /\ bootReplay

\* boot, lines 156-164: GetResumeToken with a live context
tokenAlive == alive /\ bootToken

\* boot, lines 166-172: GetEvents with a live context returns the events after
\* the last replayed one
tailQuery ==
    /\ ~hist.panicked
    /\ mgr.pc = "tail"
    /\ alive
    /\ fetched' = queryEvents(mgr.lastEventID, 0, 0, 0, [aggregateTypes |-> GetAggregateTypes])
    /\ mgr' = [mgr EXCEPT !.pc = "handle"]
    /\ steps' = Append(steps, Step("GetEvents", mgr.lastEventID, 0, 0))
    /\ UNCHANGED <<events, pending, bus, handled, insertedOnBoot, wch, cons, calls, hist,
                   notTail>>

\* boot, lines 173-178: the next fetched event is handed to the Handler; the
\* loop does not look at the context
tailHandle ==
    /\ ~hist.panicked
    /\ mgr.pc = "handle"
    /\ fetched # <<>>
    /\ handled' = handled \cup {Head(fetched).id}
    /\ fetched' = Tail(fetched)
    /\ UNCHANGED <<events, pending, bus, insertedOnBoot, mgr, wch, cons, calls, steps, hist,
                   notTail>>

\* the loop of lines 173-178 is over
tailEnd ==
    /\ ~hist.panicked
    /\ mgr.pc = "handle"
    /\ fetched = <<>>
    /\ mgr' = [mgr EXCEPT !.pc = "start"]
    /\ UNCHANGED <<events, pending, bus, handled, insertedOnBoot, wch, cons, calls, steps,
                   hist, fetched, notTail>>

\* Replay, GetResumeToken or GetEvents is called with the cancelled context
\* and returns its error, and OnBoot returns it
bootCancelled ==
    /\ ~alive
    /\ mgr.pc \in {"replay", "token", "tail"}
    /\ bootError

\* a running consumer hands a message of its partition, after its token, to
\* the Handler
consumerHandles(k) ==
    /\ ~hist.panicked
    /\ cons[k].state = "running"
    /\ \E j \in DOMAIN bus :
        /\ j > cons[k].token
        /\ WhichPartition(bus[j].aggregateID, TopicPartitions) = cons[k].partition
        /\ handled' = handled \cup {bus[j].id}
    /\ UNCHANGED <<events, pending, bus, insertedOnBoot, mgr, wch, cons, calls, steps, hist,
                   notMgr>>

\* OnBoot and the consumers, the events saved and forwarded meanwhile, and
\* the thread that calls Freeze
FreezeNext ==
    \/ \E a \in Aggregates, now \in 1..MaxTime : SaveOne(a, now)
    \/ Forward
    \/ bootBegin
    \/ replayAlive
    \/ tokenAlive
    \/ tailQuery
    \/ tailHandle
    \/ tailEnd
    \/ bootCancelled
    \/ bootConsumer
    \/ bootFrozen
    \/ StartNotifier
    \/ bootDone
    \/ \E k \in DOMAIN cons : consumerStops(k)
    \/ \E k \in DOMAIN cons : consumerHandles(k)
    \/ \E t \in {FreezeThread} :
         \/ freezeBegin(t)
         \/ freezeCheck(t)
         \/ freezeDrain(t)
         \/ freezeRead(t)
         \/ freezeReturn(t)

SpecFreeze == ManagerInit /\ [][FreezeNext]_vars

(***************************************************************************)
(* Properties of the balancer                                              *)
(***************************************************************************)
\* what one more iteration of member m would leave running at m
NextRunning(m) ==
    balance(m, workersToAcquire(m), workersInUse(m),
            isRunning[m], isRunning[m], lockHolder).up

\* the membership is settled (the list holds exactly the live members, with
\* their current workers) and no iteration starts or stops a worker any more
Converged ==
    /\ joined # {}
    /\ registered = joined
    /\ \A m \in Members : bal[m].pc = "idle"
    /\ \A m \in joined : claims[m] = isRunning[m]
    /\ \A m \in joined : NextRunning(m) = isRunning[m]

\* C1: once the loop has converged for W workers and M members, every member
\* runs floor(W/M) or ceil(W/M) workers and two members differ by at most one.
C1_BalancerFairness ==
    Converged =>
        LET M == Cardinality(joined)
            W == monitorsNo
            lo == W \div M
            hi == IF W % M = 0 THEN lo ELSE lo + 1
        IN  /\ \A m \in joined : Cardinality(isRunning[m]) \in {lo, hi}
            /\ \A i, j \in joined :
                  Cardinality(isRunning[i]) - Cardinality(isRunning[j]) \in {-1, 0, 1}

\* a converged fleet of all members in which the remainder has been handed out
C1_Witness ==
    /\ Converged
    /\ joined = Members
    /\ \E i, j \in joined : Cardinality(isRunning[i]) > Cardinality(isRunning[j])

\* C2: at every moment every worker runs at no more than one member, whatever
\* the interleaving of the members' List, balance and Register calls.
C2_AtMostOneRunning ==
    \A w \in workers : Cardinality({m \in Members : w \in isRunning[m]}) <= 1

\* member j worked from a stale list that did not show w in use, w runs at
\* member i, and j ended its balance below its target: its Start of w was refused
C2_Witness ==
    \E i, j \in Members : \E w \in workers :
        /\ i # j
        /\ w \in isRunning[i]
        /\ bal[j].pc = "register"
        /\ w \notin bal[j].workersInUse
        /\ Cardinality(bal[j].myRunningWorkers) < bal[j].workersToAcquire

(***************************************************************************)
(* Properties of the event store                                           *)
(***************************************************************************)
\* the Save of writer w has ended
Finished(w) == wr[w].pc = "idle" /\ wr[w].err # "none"

\* the two events belong to records saved from different base versions
OtherRecord(e, f) ==
    e.aggregateVersion - e.body.k # f.aggregateVersion - f.body.k

\* C6: SaveEvent for a record with base version v and n details either appends
\* exactly the n events of the versions v+1..v+n, all with the record's
\* aggregate ID, type and createdAt, and returns the last ID and v+n, or it
\* fails and appends nothing; the committed rows, which are what a reader can
\* see, never change by a part of a record.
C6_SaveEventAtomic ==
    [][\A w \in Writers :
        LET rec == wr[w].rec
            R == RecordRows(w, rec)
        IN  IF wr'[w] # wr[w] /\ wr[w].pc = "tx"
            THEN \/ wr'[w].pc = "tx" /\ events' = events
                 \/ /\ wr'[w].err = "nil"
                    /\ R \cap events = {}
                    /\ events' = events \cup R
                    /\ {r.aggregateVersion : r \in R} = (rec.version + 1)..(rec.version + rec.n)
                    /\ Cardinality(R) = rec.n
                    /\ \A r \in R : /\ r.aggregateID = rec.aggregateID
                                    /\ r.aggregateType = TypeOf(rec.aggregateID)
                                    /\ r.createdAt = rec.createdAt
                    /\ wr'[w].ret = <<NewEventID(rec.createdAt, rec.aggregateID,
                                                 rec.version + rec.n),
                                      rec.version + rec.n>>
                 \/ /\ wr'[w].err \in {"ErrConcurrentModification", "error"}
                    /\ events' = events
                    /\ wr'[w].ret = <<ZeroID, 0>>
            ELSE wr'[w] # wr[w] => events' = events]_vars

\* a record of several events is committed as a whole, while another writer
\* is halfway through its record, with rows no reader sees
C6_Witness ==
    \E w1, w2 \in Writers :
        /\ wr[w1].err = "nil"
        /\ wr[w1].rec.n > 1
        /\ RecordRows(w1, wr[w1].rec) \subseteq events
        /\ wr[w2].pc = "tx"
        /\ wr[w2].k > 0
        /\ wr[w2].k < wr[w2].rec.n
        /\ Uncommitted(w2) \cap events = {}

C8_DuplicateIdempotencyKey ==
    \A w1, w2 \in Writers :
        ( /\ idempotencyUnique
          /\ w1 # w2
          /\ Finished(w1) /\ Finished(w2)
          /\ wr[w1].rec.n = 1 /\ wr[w2].rec.n = 1
          /\ wr[w1].rec.idempotencyKey # 0
          /\ wr[w1].rec.idempotencyKey = wr[w2].rec.idempotencyKey
          /\ TypeOf(wr[w1].rec.aggregateID) = TypeOf(wr[w2].rec.aggregateID)
          /\ wr[w1].rec.aggregateID # wr[w2].rec.aggregateID
          /\ wr[w1].err = "nil"
          /\ wr[w2].err # "error"
          /\ ~ \E e \in events : /\ e.aggregateID = wr[w2].rec.aggregateID
                                 /\ e.aggregateVersion = wr[w2].rec.version + 1 )
        => wr[w2].err = "DuplicateIdempotencyKey"

\* C9: of two events of one aggregate the one with the higher version has the
\* greater ID, and when they come from different Saves the later createdAt.
C9_MonotonicEventIDs ==
    \A e, f \in events :
        (e.aggregateID = f.aggregateID /\ e.aggregateVersion < f.aggregateVersion)
        => /\ IDLess(e.id, f.id)
           /\ OtherRecord(e, f) => e.createdAt < f.createdAt

\* C10: with a trailing lag L > 0 every event GetEvents returns has a
\* createdAt of now - L or earlier, now being the time of the query: no event
\* is handed out before createdAt + L.
C10_TrailingLag ==
    batch.trailingLag > 0 =>
        \A i \in DOMAIN batch.events :
            batch.events[i].createdAt + batch.trailingLag <= batch.now

\* a query with a lag has just returned events and has held back a stored
\* event, newer than now - L, that a query without lag returns
C10_Witness ==
    /\ batch.trailingLag > 0
    /\ batch.events # <<>>
    /\ clock = batch.now
    /\ \E e \in Eligible(batch.afterEventID, batch.now, 0, NoFilter) :
          /\ e.createdAt > batch.now - batch.trailingLag
          /\ e.createdAt <= batch.now
          /\ \A i \in DOMAIN batch.events : batch.events[i] # e

(***************************************************************************)
(* Properties of the push feeder                                           *)
(***************************************************************************)
\* the message at place i of the sink is there for the first time
FirstAt(i) == \A h \in 1..(i - 1) : sink[h].id # sink[i].id

\* the detail k of the document d has been sunk
Sunk(d, k) == \E i \in DOMAIN sink : sink[i].id = <<d, k>>

\* the feeder runs and the stream has nothing more for it
CaughtUp == feed.pc = "running" /\ ~feed.inDoc /\ Ahead = {}

\* C4: leaving redeliveries aside, the events of one aggregate arrive at the
\* sink with strictly ascending versions, the details of one document included.
C4_AscendingVersions ==
    \A i, j \in DOMAIN sink :
        ( /\ i < j
          /\ FirstAt(i) /\ FirstAt(j)
          /\ sink[i].aggregateID = sink[j].aggregateID )
        => sink[i].aggregateVersion < sink[j].aggregateVersion

\* C5: a feeder that resumed from the sink's last resume token and has caught
\* up with the stream has passed every detail of every document of its
\* partitions, from the first document it ever sank on, to the sink.
C5_ResumeLosesNothing ==
    CaughtUp =>
        \A d \in DOMAIN docs :
            ( /\ \E i \in DOMAIN sink : sink[i].resumeToken <= d
              /\ partitionMatch(Hash(docs[d].aggregateID), FeedPartitions,
                                FeedPartitionsLow, FeedPartitionsHi) )
            => \A k \in 0..(docs[d].n - 1) : Sunk(d, k)

(***************************************************************************)
(* Properties of the projection boot                                       *)
(***************************************************************************)
\* the event with this ID is on the topic
Published(id) == \E i \in DOMAIN bus : bus[i].id = id

\* OnBoot has returned and the consumer has read the whole topic
LiveAndCaughtUp == boot.pc = "live" /\ boot.consumer = Len(bus)

\* C3: once OnBoot has returned and the consumer it started has read the topic
\* to its end, every event of the projection's aggregate types that was
\* inserted while OnBoot ran and that is on the topic has been handled.
C3_BootNoGap ==
    LiveAndCaughtUp =>
        \A e \in events :
            ( /\ e.id \in insertedOnBoot
              /\ e.aggregateType \in GetAggregateTypes
              /\ Published(e.id) )
            => e.id \in handled


\* C16: when OnBoot has returned and the projection is live, the Handler has
\* been called with every event inserted while OnBoot ran.
C16_HandledBeforeLive ==
    boot.pc = "live" =>
        \A e \in events :
            (e.id \in insertedOnBoot /\ e.aggregateType \in GetAggregateTypes)
                => e.id \in handled

(***************************************************************************)
(* Properties of the polling feeder                                        *)
(***************************************************************************)
\* the poller has passed the event with this ID to the sink
Seen(id) == \E i \in DOMAIN poll.seen : poll.seen[i] = id

\* C11: with writers that commit less than the trailing lag after createdAt,
\* the poller passes the events on in ascending order of their IDs, each once,
\* none before its createdAt is the lag old, and no committed event is left
\* behind lastID without having been passed on.
C11_PollerNeverSkips ==
    /\ \A i, j \in DOMAIN poll.seen :
            i < j => IDLess(poll.seen[i], poll.seen[j])
    /\ \A i \in DOMAIN poll.seen : poll.seen[i][1] + TrailingLag <= clock
    /\ \A e \in events : ~IDLess(poll.lastID, e.id) => Seen(e.id)

\* an event that was still in its transaction, below the ID of a committed
\* event, when the poller polled, has been passed on before that higher event
C11_Witness ==
    \E i, j \in DOMAIN poll.seen :
        /\ i < j
        /\ poll.seen[i] \in poll.raced
        /\ poll.seen[i][2] # poll.seen[j][2]


(***************************************************************************)
(* Properties of the partition filter                                      *)
(***************************************************************************)
\* the partition of the event, (hash mod N) + 1, lies in the feeder's range
InRange ==
    (Hash(part.aggregateID) % part.partitions) + 1
        \in part.partitionsLow..part.partitionsHi

Counted(m) == Cardinality(registered \cup {m})

\* min + 1 when the workers do not divide evenly and all of the members in
\* peers, as listed, and member m, by what it runs, have min workers; min otherwise
TargetFor(m, peers) ==
    LET min == Cardinality(workers) \div Counted(m)
    IN  IF /\ Cardinality(workers) % Counted(m) # 0
           /\ \A p \in peers : Cardinality(claims[p]) >= min
           /\ Cardinality(isRunning[m]) >= min
        THEN min + 1
        ELSE min

\* the greater of two numbers
Max(a, b) == IF a >= b THEN a ELSE b

\* C13, as amended: the target of an iteration is min + 1 exactly when W mod M
\* is not 0 and the registered claim of every listed member, the entry of this
\* member included, and the set of workers this member runs each hold at
\* least min workers, and min otherwise; balance starts no worker beyond the target.
C13_TargetCountsOwnEntry ==
    [][\A m \in Racers :
          /\ RunList(m) => bal'[m].workersToAcquire = TargetFor(m, registered)
          /\ Balance(m) =>
                Cardinality(isRunning'[m]) <=
                    Max(bal[m].workersToAcquire, Cardinality(isRunning[m]))]_vars

\* an iteration among two listed members has planned for min + 1 workers
C13_Witness ==
    \E m \in Racers :
        /\ bal[m].pc = "balance"
        /\ Cardinality(registered) >= 2
        /\ m \in registered
        /\ bal[m].workersToAcquire = (Cardinality(workers) \div Counted(m)) + 1

\* C13, as stated: the target is min + 1 exactly when W mod M is not 0 and the
\* registered claims of the other members and the set of workers this member
\* runs each hold at least min workers.
C13_TargetOthersOnly ==
    [][\A m \in Racers :
          RunList(m) => bal'[m].workersToAcquire = TargetFor(m, registered \ {m})]_vars


(***************************************************************************)
(* Rebalance scenario: member 1 starts alone, member 2 joins, member 3     *)
(* joins, member 2 leaves; every change waits for the fleet to settle      *)
(***************************************************************************)
notScene == <<storeVars, feedVars, bootVars, pollVars, partVars, mgrVars, moreVars>>

\* the heartbeats of a stage that has just begun
NoBeats == [m \in Members |-> 0]

SceneInit ==
    /\ BalStart(SceneWorkers)
    /\ scene = [stage |-> 0, beats |-> NoBeats]
    /\ StoreIdle /\ FeedIdle /\ BootIdle
    /\ PollIdle /\ PartIdle /\ MgrIdle /\ MoreIdle

\* BalanceWorkers, lines 28-30: the next member of the scenario starts its loop
Enter(m) ==
    /\ m \in 1..3
    /\ scene.stage = m - 1
    /\ m = 1 \/ Converged
    /\ joined' = joined \cup {m}
    /\ scene' = [stage |-> m, beats |-> NoBeats]
    /\ UNCHANGED <<workers, registered, claims, isRunning, lockHolder, bal, notScene>>

\* BalanceWorkers, lines 31-41: one iteration of member m, the one it runs on
\* entering the loop or one its ticker starts
Heartbeat(m) ==
    /\ m \in joined
    /\ bal[m].pc = "idle"
    /\ LET st == balance(m, workersToAcquire(m), workersInUse(m),
                         isRunning[m], isRunning[m], lockHolder)
       IN  /\ isRunning' = [isRunning EXCEPT ![m] = st.up]
           /\ lockHolder' = st.locks
           /\ registered' = registered \cup {m}
           /\ claims' = [claims EXCEPT ![m] = st.my]
    /\ scene' = [scene EXCEPT !.beats[m] = IF @ < MaxBeats THEN @ + 1 ELSE @]
    /\ UNCHANGED <<workers, joined, bal, notScene>>

\* BalanceWorkers, lines 37-38: member 2 ends; its workers stop and their locks
\* are released
Depart ==
    /\ scene.stage = 3
    /\ Converged
    /\ joined' = joined \ {2}
    /\ isRunning' = [isRunning EXCEPT ![2] = {}]
    /\ lockHolder' = [w \in workers |-> IF lockHolder[w] = 2 THEN 0 ELSE lockHolder[w]]
    /\ scene' = [stage |-> 4, beats |-> NoBeats]
    /\ UNCHANGED <<workers, registered, claims, bal, notScene>>

SceneNext ==
    \/ \E m \in Members : Enter(m)
    \/ \E m \in Members : Heartbeat(m)
    \/ Depart
    \/ \E m \in Members : Expire(m)

SpecRebalance == SceneInit /\ [][SceneNext]_vars

(***************************************************************************)
(* The channels m.release: the ones Wait returns and the ones Freeze       *)
(* closes                                                                  *)
(***************************************************************************)
notRelease == <<balVars, storeVars, feedVars, bootVars, pollVars, partVars, sceneVars,
                mgrVars, feedEnd, esVars, fetched, failedAt, flt>>

\* the release channels made are at most this many
MaxReleases == 7

\* Wait, lines 93-104, on an instance that is not frozen: m.wait is closed, so
\* the caller goes on, makes a new channel, keeps it in m.release and returns it
WaitRelease ==
    /\ ~rel.frozen
    /\ Len(rel.chans) < MaxReleases
    /\ rel' = [rel EXCEPT !.chans = Append(@, "open"),
                          !.cur = Len(rel.chans) + 1,
                          !.got = @ \cup {Len(rel.chans) + 1}]
    /\ UNCHANGED notRelease

\* Freeze, lines 205-214: the channel in m.release is closed and a new one
\* takes its place
FreezeRelease ==
    /\ Len(rel.chans) < MaxReleases
    /\ rel' = [rel EXCEPT !.chans = Append([@ EXCEPT ![rel.cur] = "closed"], "open"),
                          !.cur = Len(rel.chans) + 1,
                          !.frozen = TRUE]
    /\ UNCHANGED notRelease

\* Unfreeze, lines 229-238, on a frozen instance: m.wait is closed
UnfreezeRelease ==
    /\ rel.frozen
    /\ rel' = [rel EXCEPT !.frozen = FALSE]
    /\ UNCHANGED notRelease

ReleaseInit ==
    /\ StoreIdle /\ FeedIdle /\ BalStart(0) /\ BootIdle /\ LaterIdle

ReleaseNext ==
    \/ WaitRelease
    \/ FreezeRelease
    \/ UnfreezeRelease

SpecRelease == ReleaseInit /\ [][ReleaseNext]_vars

(***************************************************************************)
(* Properties of the rebalance scenario                                    *)
(***************************************************************************)
\* the members that are alive in a stage of the scenario
StageMembers(stage) ==
    IF stage = 1 THEN {1}
    ELSE IF stage = 2 THEN {1, 2}
    ELSE IF stage = 3 THEN {1, 2, 3}
    ELSE IF stage = 4 THEN {1, 3}
    ELSE {}

\* every worker runs, at one member only
AllRunningOnce ==
    \A w \in workers : Cardinality({m \in Members : w \in isRunning[m]}) = 1

\* the members of the stage share the workers evenly: W/M each, or one more
\* for some when M does not divide W (for 12 workers: 12, then 6 and 6, then
\* 4, 4 and 4, then 6 and 6)
EvenShares ==
    LET M == Cardinality(joined)
        W == Cardinality(workers)
    IN  \A m \in joined :
            Cardinality(isRunning[m]) \in
                {W \div M, (W \div M) + (IF W % M = 0 THEN 0 ELSE 1)}

\* C14, as amended: in every settled state of the scenario (member 1 alone,
\* then with member 2, then with members 2 and 3, then with member 3 after
\* member 2 has left) the members alive own the workers in even shares and all
\* workers run, each at one member.
C14_SettledShares ==
    Converged =>
        /\ joined = StageMembers(scene.stage)
        /\ EvenShares
        /\ AllRunningOnce

\* the scenario has come to its end: members 1 and 3 have settled after member 2 left
C14_Witness ==
    /\ scene.stage = 4
    /\ Converged
    /\ Cardinality(isRunning[1]) = Cardinality(isRunning[3])

\* C14, as stated: one heartbeat after member 2 joined (member 2 has run the
\* iteration it enters with and one more, member 1 has run one) the two
\* members own half of the workers each.
C14_AfterOneHeartbeat ==
    ( /\ scene.stage = 2
      /\ scene.beats[1] >= 1
      /\ scene.beats[2] >= 2 )
    => \A m \in joined : Cardinality(isRunning[m]) = Cardinality(workers) \div 2

(***************************************************************************)
(* Properties of the BootableManager                                       *)
(***************************************************************************)
\* the places of the log of OnBoot at which op was called
At(op) == {k \in DOMAIN steps : steps[k].op = op}

\* the partitions of the manager
Partitions == partitionLo..partitionHi

\* C15: OnBoot makes its calls in this order: the resume ID is read and
\* delayed by the trailing lag; the history is replayed from the delayed ID;
\* the resume token of every partition lo..hi is captured; the tail after
\* the last replayed ID is queried and handled; then one consumer is started
\* for each partition with the token captured for that partition; and the
\* notifier is registered after all the consumers. No consumer is started
\* before the tail, and no token is captured after it.
C15_BootOrder ==
    /\ \A k \in At("Replay") :
          /\ k = 3
          /\ steps[1].op = "GetResumeEventID"
          /\ steps[2].op = "DelayEventID"
          /\ steps[2].id = DelayEventID(steps[1].id, TrailingLag)
          /\ steps[3].id = steps[2].id
    /\ \A k \in At("GetResumeToken") :
          /\ \E r \in At("Replay") : r < k
          /\ \A g \in At("GetEvents") : k < g
    /\ \A g \in At("GetEvents") :
          /\ \A p \in Partitions :
                \E k \in At("GetResumeToken") : k < g /\ steps[k].partition = p
          /\ \A c \in At("StartConsumer") : g < c
    /\ \A c \in At("StartConsumer") :
          /\ steps[c].partition \in Partitions
          /\ \E g \in At("GetEvents") : g < c
          /\ \E k \in At("GetResumeToken") :
                /\ k < c
                /\ steps[k].partition = steps[c].partition
                /\ steps[k].token = steps[c].token
          /\ \A d \in At("StartConsumer") :
                steps[d].partition = steps[c].partition => d = c
          /\ \A n \in At("StartNotifier") : c < n
    /\ \A n \in At("StartNotifier") :
          \A p \in Partitions :
              \E c \in At("StartConsumer") : c < n /\ steps[c].partition = p

\* an OnBoot has returned nil after it replayed an event, captured different
\* tokens for two partitions and started a consumer for each of them
C15_Witness ==
    /\ At("return") # {}
    /\ At("StartNotifier") # {}
    /\ steps[3].id # ZeroID
    /\ \E c, d \in At("StartConsumer") :
          /\ steps[c].partition # steps[d].partition
          /\ steps[c].token # steps[d].token

\* C17: Freeze returns true exactly when an OnBoot completed successfully
\* before it and no Freeze has happened since; it returns false on an
\* instance that never booted or that is already frozen; and after a Freeze
\* the instance does not hold the lock until the next successful OnBoot.
\* hist.lock keeps the values of "holds the lock" that the calls returned so
\* far allow, for every order in which overlapping calls may have taken
\* effect: no value is left when a Freeze returned what the claim excludes.
C17_FreezeReturnsLock ==
    /\ hist.lock # {}
    /\ ~Freezing => mgr.hasLock \in hist.lock

\* C18: a Wait that begins after a Freeze has returned and before the next
\* Unfreeze does not return before that Unfreeze; a Wait that begins on an
\* instance that was never frozen, or after an Unfreeze, has nothing to wait
\* for: the channel it took is closed.
C18_WaitBlocksWhileFrozen ==
    \A t \in Threads :
        calls[t].op = "Wait" =>
            /\ calls[t].pc = "done" => calls[t].since # "frozen"
            /\ calls[t].since = "open" => wch[calls[t].ch] = "closed"

\* a Wait that began on the frozen instance has returned after the Unfreeze,
\* and a Wait that began after that Unfreeze has returned too
C18_Witness ==
    \E t, u \in Threads :
        /\ calls[t].op = "Wait" /\ calls[t].pc = "done" /\ calls[t].since = "unfrozen"
        /\ calls[u].op = "Wait" /\ calls[u].pc = "done" /\ calls[u].since = "open"
        /\ calls[u].ch > 1

\* C19: after an Unfreeze, every caller of Wait that a Freeze before it had
\* blocked returns, whatever the sequence of Freeze, Unfreeze and Wait calls,
\* two Freeze calls without an Unfreeze between them included: the channel
\* such a caller waits on is closed once the Unfreeze has returned.
C19_UnfreezeReleasesAll ==
    \A t \in Threads :
        (calls[t].op = "Wait" /\ calls[t].pc = "blocked" /\ calls[t].since = "unfrozen")
            => wch[calls[t].ch] = "closed"

\* thread t is in a Freeze that receives from the channel of consumer k
Awaits(t, k) ==
    /\ calls[t].op = "Freeze"
    /\ calls[t].pc = "drain"
    /\ mgr.frozen[calls[t].i] = k

\* C20: Freeze always returns: it waits for the channel of each consumer for
\* a bounded time only, so a consumer that never closes its channel does not
\* keep Freeze, and the mutex it holds, for ever. A Freeze that receives from
\* the channel of a consumer that will never close it can go on.
C20_FreezeAlwaysReturns ==
    \A t \in Threads, k \in DOMAIN cons :
        (Awaits(t, k) /\ cons[k].state = "stuck") => ENABLED freezeDrain(t)

(***************************************************************************)
(* Properties of the return of Feed                                        *)
(***************************************************************************)
\* C21: Feed returns nil only when its context was cancelled; when the
\* stream ends for another reason (an error of the stream or a lost
\* connection, a decode error, a Sink error) Feed returns an error.
C21_NilOnlyOnCancel ==
    feedEnd.err = "nil" => feedEnd.cause = "cancelled"

(***************************************************************************)
(* Properties of the restart of a feeder of several partitions             *)
(***************************************************************************)
\* the document belongs to a partition of the feeder
Owned(d) ==
    LET p == WhichPartition(docs[d].aggregateID, ResumePartitions)
    IN  ResumeLow <= p /\ p <= ResumeHi

\* C22: a feeder of the partitions lo..hi starts from the smallest of the
\* last published positions of its partitions, from the beginning when no
\* partition has a message, so that no event of an owned partition is
\* skipped: once the feeder has caught up with the stream, every event of
\* every document of its partitions has been passed to the sink.
C22_RestartSkipsNothing ==
    (feed.pc = "running" /\ ~feed.inDoc /\ ResumeAhead = {}) =>
        \A d \in DOMAIN docs :
            Owned(d) => \A k \in 0..(docs[d].n - 1) : Sunk(d, k)

\* the Save of writer w ended with a unique violation that no clash of
\* (aggregate_id, aggregate_version) explains: the index on the key refused it
RejectedByKey(w) ==
    /\ Finished(w)
    /\ wr[w].err = "ErrConcurrentModification"
    /\ ~ \E e \in events :
            /\ e.aggregateID = wr[w].rec.aggregateID
            /\ e.aggregateVersion \in (wr[w].rec.version + 1)..(wr[w].rec.version + wr[w].rec.n)

\* C23: the uniqueness of the idempotency key rejects a Save only when a
\* different, earlier Save of the same aggregate type used the same
\* non-empty key: one Save of several events under one key is not rejected,
\* and Saves with the empty key are never rejected for their keys.
C23_KeyRejectsOnlyDuplicates ==
    \A w \in Writers :
        RejectedByKey(w) =>
            /\ wr[w].rec.idempotencyKey # 0
            /\ \E e \in events :
                  /\ e.aggregateType = TypeOf(wr[w].rec.aggregateID)
                  /\ e.idempotencyKey = wr[w].rec.idempotencyKey

\* the answer b.events to the query b is right for the table as it is
BatchRight(b) ==
    LET eligible == Eligible(b.afterEventID, b.now, b.trailingLag, NoFilter)
        returned == {b.events[i] : i \in DOMAIN b.events}
    IN  /\ \A i, j \in DOMAIN b.events : i < j => IDLess(b.events[i].id, b.events[j].id)
        /\ \A e \in returned : IDLess(b.afterEventID, e.id)
        /\ returned \subseteq eligible
        /\ b.batchSize > 0 => Len(b.events) <= b.batchSize
        /\ (b.batchSize <= 0 \/ Len(b.events) < b.batchSize) => returned = eligible
        /\ \A e \in eligible \ returned : \A f \in returned : IDLess(f.id, e.id)

\* C24: GetEvents(afterID, batchSize, ...) returns events in strictly
\* ascending order of their IDs, all with an ID greater than afterID, at most
\* batchSize of them when batchSize > 0 and all of them otherwise, and they
\* are the eligible events of the lowest IDs; with the zero afterID it
\* returns from the beginning.
C24_GetEventsOrdered == [][batch' # batch => BatchRight(batch')]_vars

\* a query with a batch size of one has returned the first eligible event
\* and has left a later one for the next query
C24_Witness ==
    /\ batch.batchSize = 1
    /\ Len(batch.events) = 1
    /\ \E e \in Eligible(batch.afterEventID, batch.now, batch.trailingLag, NoFilter) :
          IDLess(batch.events[1].id, e.id)

(***************************************************************************)
(* The EventStore with snapshots                                           *)
(***************************************************************************)
\* the tables as Forget(a, kind) has to leave them, from the tables it found
ForgottenEvents(tbl, a, kind) ==
    {IF r.aggregateID = a /\ r.kind = kind THEN [r EXCEPT !.body = fun(kind, r.body)] ELSE r :
        r \in tbl}

ForgottenSnapshots(snaps, a) ==
    {IF s.aggregateID = a THEN [s EXCEPT !.body = fun(s.aggregateType, s.body)] ELSE s :
        s \in snaps}

\* C25: when Forget(aggregateID, kind, rewrite) returns without error, every
\* event of the aggregate with the kind and every snapshot of the aggregate has
\* the rewrite of its former body and nothing else of it is changed, and the
\* events of other kinds and the rows of other aggregates are as they were
C25_ForgetRewritesBodiesOnly ==
    [][ForgetReturn =>
        /\ RowsOf(table', fg.aggregateID)
                = RowsOf(ForgottenEvents(fg.events, fg.aggregateID, fg.kind), fg.aggregateID)
        /\ RowsOf(snapshots', fg.aggregateID)
                = RowsOf(ForgottenSnapshots(fg.snapshots, fg.aggregateID), fg.aggregateID)
        /\ \A r \in fg.events : r.aggregateID # fg.aggregateID => r \in table'
        /\ \A s \in fg.snapshots : s.aggregateID # fg.aggregateID => s \in snapshots']_vars

\* a Forget has returned without error, and the owner is gone from an event
\* and from a snapshot of an aggregate that has an event of the other kind
\* too, beside an event of another aggregate
C25_Witness ==
    /\ fg.pc = "done"
    /\ fg.err = "nil"
    /\ \E r \in table, s \in snapshots, d \in table, o \in table :
        /\ r.kind = "OwnerUpdated"
        /\ Decode(r.body).owner = 0
        /\ s.aggregateID = r.aggregateID
        /\ Decode(s.body) = [owner |-> 0, balance |-> 1]
        /\ d.aggregateID = r.aggregateID
        /\ d.kind = "MoneyDeposited"
        /\ o.aggregateID # r.aggregateID

\* the events of the aggregate a above its last snapshot
SinceLastSnapshot(tbl, snaps, a) ==
    Cardinality({r \in RowsOf(tbl, a) :
                    \A s \in RowsOf(snaps, a) : r.aggregateVersion > s.aggregateVersion})

\* the event with the highest version of the aggregate a
LastRow(tbl, a) ==
    CHOOSE r \in RowsOf(tbl, a) :
        \A t \in RowsOf(tbl, a) : t.aggregateVersion <= r.aggregateVersion

\* every snapshot has the ID, the aggregate and the version of a stored event
SnapshotsRefer(tbl, snaps) ==
    \A s \in snaps : \E r \in tbl :
        /\ r.id = s.id
        /\ r.aggregateID = s.aggregateID
        /\ r.aggregateVersion = s.aggregateVersion

\* C26: a Save that appends events and returns without error writes a
\* snapshot exactly when the events of the aggregate since its last snapshot,
\* the appended ones included, are at least snapshotThreshold; the snapshot has
\* the last version and the ID of the last appended event, so that every
\* snapshot refers to a stored event of its aggregate at its version
C26_SnapshotAtThreshold ==
    [][/\ (table' # table /\ outcome'.err = "nil") =>
            /\ snapshots' # snapshots
                    <=> SinceLastSnapshot(table', snapshots, outcome'.aggregateID)
                            >= snapshotThreshold
            /\ \A s \in snapshots' \ snapshots :
                    /\ snapshots' = snapshots \cup {s}
                    /\ s.aggregateID = outcome'.aggregateID
                    /\ s.id = LastRow(table', s.aggregateID).id
                    /\ s.aggregateVersion = LastRow(table', s.aggregateID).aggregateVersion
       /\ (table' = table => snapshots' = snapshots)
       /\ SnapshotsRefer(table', snapshots')]_vars

\* snapshotThreshold events of a new aggregate were saved at once and one more
\* after them: there is one snapshot, at the version snapshotThreshold
C26_Witness ==
    /\ outcome.op = "Save"
    /\ outcome.err = "nil"
    /\ outcome.appended
    /\ Cardinality(RowsOf(table, outcome.aggregateID)) = snapshotThreshold + 1
    /\ \E s \in snapshots :
        /\ RowsOf(snapshots, outcome.aggregateID) = {s}
        /\ s.aggregateVersion = snapshotThreshold
        /\ \E r \in table :
            /\ r.aggregateID = s.aggregateID
            /\ r.aggregateVersion = 1
            /\ r.id[1] = s.id[1]

\* C27: when Save has appended the events and the insert of the snapshot
\* fails, Save returns no error and the pending events of the aggregate are
\* cleared
C27_SnapshotFailureSwallowed ==
    [][\A now \in 1..MaxNow :
        (EsSave(now, TRUE) /\ table' # table
            /\ snapshotDue(GetEventsCounter(table', snapshots, inst.aggregateID)))
        => (outcome'.err = "nil" /\ inst'.events = <<>>)]_vars

\* all the events of the aggregate a applied to a new aggregate, in the order
\* of their versions
Replayed(tbl, a) == ApplyAll(NewInstance(a), ByVersion(RowsOf(tbl, a)))

\* C28: GetByID of an aggregate that has events returns, without error, the
\* aggregate at its highest stored version and in the state that applying all
\* its events in the order of their versions gives, also when its latest
\* snapshot is at that version
C28_GetByIDRoundTrip ==
    [][\A a \in Aggregates :
        (EsGetByID(a) /\ RowsOf(table, a) # {})
        => /\ outcome'.err = "nil"
           /\ inst'.aggregateID = a
           /\ inst'.version = LastRow(table, a).aggregateVersion
           /\ inst'.state = Replayed(table, a).state]_vars

\* C29: Exec for an aggregate without events and without snapshots returns
\* ErrUnknownAggregateID, does not call the handler function and saves
\* nothing; and nothing is saved when the handler function returns nil or an
\* error
C29_ExecUnknownAggregate ==
    [][\A a \in Aggregates, do \in Handlers, now \in 1..MaxNow, snapshotFails \in BOOLEAN :
        Exec(a, do, now, snapshotFails)
        => /\ (RowsOf(table, a) = {} /\ RowsOf(snapshots, a) = {})
                => /\ outcome'.err = "ErrUnknownAggregateID"
                   /\ ~outcome'.called
                   /\ table' = table
                   /\ snapshots' = snapshots
           /\ (outcome'.called /\ do.kind \in {"nil", "error"})
                => (table' = table /\ snapshots' = snapshots)]_vars

\* the parts of the claim that the code keeps: for an unknown aggregate the
\* handler function is not called and nothing is saved, and nothing is saved
\* after a handler function that returns nil or an error
ExecSavesNothing ==
    [][\A a \in Aggregates, do \in Handlers, now \in 1..MaxNow, snapshotFails \in BOOLEAN :
        Exec(a, do, now, snapshotFails)
        => /\ (RowsOf(table, a) = {} /\ RowsOf(snapshots, a) = {})
                => /\ outcome'.err # "nil"
                   /\ ~outcome'.called
                   /\ table' = table
                   /\ snapshots' = snapshots
           /\ (outcome'.called /\ do.kind \in {"nil", "error"})
                => (table' = table /\ snapshots' = snapshots)]_vars

\* a Freeze that began after the last OnBoot began has returned: under
\* SpecFreeze only Freeze cancels the context of an OnBoot that has not
\* failed, Freeze holds the mutex from there to its return, and nothing
\* unfreezes
FreezeAcknowledged ==
    /\ hist.frozen
    /\ mgr.cancel # 0
    /\ mgr.cancel \in mgr.dead
    /\ ~Freezing

\* C30: once Freeze has returned, the Handler is not invoked before a later
\* OnBoot, neither by a consumer nor by the boot that was in progress
C30_NoHandlerAfterFreeze ==
    [][(replayAlive \/ tailHandle \/ \E k \in DOMAIN cons : consumerHandles(k))
            => ~FreezeAcknowledged]_vars

\* C31: whatever the interleaving of OnBoot and Freeze, once both are over
\* the instance is not marked as holding the lock while the context of its
\* boot is cancelled by the Freeze and the channel m.wait is open, that is,
\* while its Wait gate is shut
C31_NoLockWhileFrozen ==
    (mgr.pc = "idle" /\ ~Freezing /\ mgr.hasLock)
        => ~(mgr.cancel \in mgr.dead /\ wch[mgr.wait] = "open")

\* C32: no sequence of Freeze, Unfreeze and Wait calls closes a channel that
\* is closed already
C32_NoCloseOfClosed == ~hist.panicked

\* the event of the detail k of the document d comes after the event of the
\* detail fk of the document fd
LaterThan(d, k, fd, fk) == d > fd \/ (d = fd /\ k > fk)

\* C33: once Sink has failed for an event, no later event is passed to Sink
\* before that event has been sunk: the feeder, started again, resumes at the
\* failed event or before it
C33_NoSinkPastFailure ==
    [][FeedSink =>
        \A f \in failedAt :
            Sunk(f[1], f[2]) \/ ~LaterThan(feed.pos, feed.k, f[1], f[2])]_vars


\* C34: when a step of OnBoot fails, OnBoot returns the error with its context
\* cancelled, the instance is not marked as holding the lock and no notifier
\* is registered by the failing step, and no consumer started with the context
\* is left running; when the failing step is the replay of the history or of
\* the tail, this OnBoot has started no consumer and has not registered with
\* the notifier
C34_BootErrorUndoes ==
    [][bootError =>
        /\ mgr'.pc = "idle"
        /\ steps'[Len(steps')].op = "error"
        /\ mgr.cancel \in mgr'.dead
        /\ mgr'.hasLock = mgr.hasLock
        /\ mgr'.notifiers = mgr.notifiers
        /\ \A k \in DOMAIN cons' : cons'[k].ctx = mgr.cancel => cons'[k].state # "running"
        /\ mgr.pc \in {"replay", "tail"} =>
              /\ mgr.started = <<>>
              /\ At("StartConsumer") = {}
              /\ At("StartNotifier") = {}
              /\ \A k \in DOMAIN cons : cons[k].ctx # mgr.cancel]_vars

\* an OnBoot has returned an error after it started a consumer, which is
\* cancelled, and the instance does not hold the lock
C34_Witness ==
    /\ mgr.pc = "idle"
    /\ At("error") # {}
    /\ At("StartConsumer") # {}
    /\ ~mgr.hasLock
    /\ \E k \in DOMAIN cons : cons[k].ctx = mgr.cancel /\ cons[k].state = "cancelled"


\* the components of a filter, as the rows are to satisfy them
Satisfies(e, filter) ==
    /\ Len(filter.aggregateTypes) > 0 =>
          \E k \in DOMAIN filter.aggregateTypes : e.aggregateType = filter.aggregateTypes[k]
    /\ filter.partitions > 0 =>
          /\ e.aggregateIDHash % filter.partitions >= filter.partitionsLow - 1
          /\ e.aggregateIDHash % filter.partitions <= filter.partitionsHi - 1
    /\ \A k \in DOMAIN filter.labels :
          \E idx \in DOMAIN filter.labels[k].values :
              e.labels[filter.labels[k].key] = filter.labels[k].values[idx]

\* the rows of the table that satisfy the filter asked
Satisfying ==
    LET Wanted(e) == Satisfies(e, flt.filter)
    IN  SelectSeq(flt.rows, Wanted)

\* C35: GetEvents with a filter returns exactly the rows that satisfy every
\* component of the filter: the type is one of the listed types, the hash
\* modulo the partitions lies within PartitionsLow-1 and PartitionsHi-1, for
\* one partition and for a range alike, and for every label key the label of
\* the row is one of the listed values, however many are listed
C35_FilteredExactly ==
    flt.asked => (~flt.err /\ flt.out = Satisfying)


\* the workers a call of balance has called Start on, and the ones whose Start
\* returned true
StartsOf(log) == {log[i].worker : i \in {j \in DOMAIN log : log[j].op = "Start"}}
StartedOf(log) ==
    {log[i].worker : i \in {j \in DOMAIN log : log[j].op = "Start" /\ log[j].ok}}

\* the calls made by the call of balance that member m is about to make
CallsOf(m) ==
    balance(m, bal[m].workersToAcquire, bal[m].workersInUse, bal[m].myRunningWorkers,
            isRunning[m], lockHolder).log

\* C36: an iteration calls Start on no worker that runs at this member and on
\* no worker that another member claims in the list the iteration read,
\* whatever the calls of Start return; and the workers it adds to its running
\* set are the ones whose Start returned true, each with its lock taken
C36_StartOnlyFreeWorkers ==
    [][\A m \in Racers :
        /\ RunList(m) =>
              \A locks \in [workers -> 0..NumRacers] :
                  StartsOf(balance(m, bal'[m].workersToAcquire, bal'[m].workersInUse,
                                   bal'[m].myRunningWorkers, isRunning[m], locks).log)
                      \cap (isRunning[m] \cup UNION {claims[p] : p \in registered \ {m}})
                  = {}
        /\ Balance(m) =>
              /\ StartsOf(CallsOf(m)) \cap (isRunning[m] \cup bal[m].workersInUse) = {}
              /\ bal'[m].myRunningWorkers \ bal[m].myRunningWorkers = StartedOf(CallsOf(m))
              /\ isRunning'[m] \ isRunning[m] = StartedOf(CallsOf(m))
              /\ \A w \in StartedOf(CallsOf(m)) :
                    lockHolder[w] \in {0, m} /\ lockHolder'[w] = m
              /\ \A w \in StartsOf(CallsOf(m)) \ StartedOf(CallsOf(m)) :
                    /\ lockHolder[w] \notin {0, m}
                    /\ w \notin bal'[m].myRunningWorkers]_vars

\* a balance has started a worker, and its Start of another worker, free in
\* the list it read and locked by another member, returned false
C36_Witness ==
    \E m \in Racers :
        /\ bal[m].pc = "register"
        /\ bal[m].myRunningWorkers # {}
        /\ Cardinality(bal[m].myRunningWorkers) < bal[m].workersToAcquire
        /\ \E w \in workers \ (bal[m].workersInUse \cup bal[m].myRunningWorkers) :
              lockHolder[w] \notin {0, m}

\* the first n of the workers S in the configured order
FirstOf(S, n) == {w \in S : Cardinality({u \in S : u < w}) < n}

\* C37: a call of balance either only stops or only starts. With more running
\* workers than the target it stops exactly the difference, the first running
\* ones in the configured order, and the member then runs the target; with
\* fewer it starts at most the difference, stops none, and the member then
\* runs the target at most; with exactly the target it calls neither
C37_StopsOrStarts ==
    [][\A m \in Racers :
        Balance(m) =>
            LET log == CallsOf(m)
                running == Cardinality(bal[m].myRunningWorkers)
                target == bal[m].workersToAcquire
                stopped == {log[i].worker : i \in {j \in DOMAIN log : log[j].op = "Stop"}}
            IN  /\ \A i, j \in DOMAIN log : log[i].op = log[j].op
                /\ running > target =>
                      /\ Len(log) = running - target
                      /\ stopped = FirstOf(isRunning[m], running - target)
                      /\ \A i, j \in DOMAIN log : i < j => log[i].worker < log[j].worker
                      /\ isRunning'[m] = isRunning[m] \ stopped
                      /\ Cardinality(isRunning'[m]) = target
                /\ running < target =>
                      /\ stopped = {}
                      /\ Cardinality(StartedOf(log)) <= target - running
                      /\ isRunning'[m] = isRunning[m] \cup StartedOf(log)
                      /\ Cardinality(isRunning'[m]) <= target
                /\ running = target =>
                      /\ log = <<>>
                      /\ isRunning'[m] = isRunning[m]]_vars

\* a balance has stopped two of the three workers its member ran, and the
\* member runs the target
C37_Witness ==
    \E m \in Racers :
        /\ bal[m].pc = "register"
        /\ bal[m].workersToAcquire = 1
        /\ Cardinality(isRunning[m]) = 1
        /\ Cardinality(claims[m] \ isRunning[m]) = 2
        /\ isRunning[m] \cap FirstOf(claims[m], 2) = {}

\* C38: an iteration whose List succeeded ends with one call of Register,
\* made after the call of balance, and its argument is exactly the set of
\* the workers that run at this member after the stops and the starts
C38_RegistersRunning ==
    [][\A m \in Racers :
        /\ Balance(m) =>
              /\ bal'[m].pc = "register"
              /\ bal'[m].myRunningWorkers = isRunning'[m]
              /\ bal'[m].myRunningWorkers =
                    (isRunning[m] \ {c.worker : c \in {CallsOf(m)[i] : i \in
                                        {j \in DOMAIN CallsOf(m) : CallsOf(m)[j].op = "Stop"}}})
                    \cup StartedOf(CallsOf(m))
        /\ (bal[m].pc = "register" /\ bal'[m] # bal[m]) =>
              /\ Register(m) \/ RegisterFails(m)
              /\ bal[m].myRunningWorkers = isRunning[m]
              /\ bal'[m].pc = "idle"
        /\ Register(m) => claims'[m] = isRunning[m] /\ bal[m].pc = "register"
        /\ (bal[m].pc # "register" /\ bal'[m].pc = "register") => Balance(m)
        /\ (bal[m].pc # "register") => (claims'[m] = claims[m])]_vars

\* a member has registered after it stopped a worker and while a worker it
\* could not start is free in the list: it claims exactly what it runs
C38_Witness ==
    \E m \in Racers :
        /\ bal[m].pc = "idle"
        /\ m \in registered
        /\ claims[m] = isRunning[m]
        /\ claims[m] # {}
        /\ \E w \in workers \ claims[m] : lockHolder[w] = 0
        /\ \E p \in Racers \ {m} : p \in registered /\ claims[p] # isRunning[p]


\* C39: an iteration whose List fails starts no worker, stops no worker and
\* registers nothing: the workers that run, the locks and the member list are
\* as they were; the only step after it is the one that logs the error and
\* waits for the next heartbeat, from where the next iteration begins; and a
\* loop ends only when its process ends it
C39_ListFailureChangesNothing ==
    [][\A m \in Racers :
        /\ ListFails(m) =>
              /\ bal'[m].pc = "failed"
              /\ isRunning' = isRunning
              /\ lockHolder' = lockHolder
              /\ registered' = registered
              /\ claims' = claims
              /\ joined' = joined
        /\ bal[m].pc = "failed" =>
              /\ isRunning'[m] = isRunning[m]
              /\ claims'[m] = claims[m]
              /\ (m \in registered') = (m \in registered)
              /\ m \in joined'
              /\ bal'[m] # bal[m] => Warnf(m) /\ bal'[m].pc = "idle"
        /\ (m \in joined /\ m \notin joined') => Leave(m)]_vars

\* the List of a member that runs a worker and has registered it has failed,
\* and the member runs and claims what it did
C39_Witness ==
    \E m \in Racers :
        /\ bal[m].pc = "failed"
        /\ isRunning[m] # {}
        /\ m \in registered
        /\ claims[m] = isRunning[m]


\* C40: after a Freeze, every channel that a Wait has returned before it is
\* closed, also when several calls of Wait have returned before the Freeze
C40_FreezeClosesReturned ==
    [][FreezeRelease => \A c \in rel.got : rel'.chans[c] = "closed"]_vars

====
